---------------------------- MODULE Spec2Model ----------------------------
(***************************************************************************)
(* MagMerge: discovery of "Bead Positions*.txt" / "Motor Positions*.txt"   *)
(* files in a folder and their combination into one output file per        *)
(* category (src/src/lib.rs).                                              *)
(*                                                                         *)
(* Bytes are one-character strings, byte strings (lines, file names) are   *)
(* sequences of them.  Option<T> is a sequence of length 0 (None) or 1     *)
(* (Some).  The file system is the environment: the outcome of every       *)
(* open, read, create and write is chosen when the call is made.           *)
(***************************************************************************)
EXTENDS Naturals, Sequences, FiniteSets, TLC

(***************************************************************************)
(* Bounds of the model.                                                    *)
(***************************************************************************)
\* directory entries listed by one scan / files passed to one combine_group
MaxFiles == 2
\* lines returned by read_next_line in one run, over all files
MaxReads == 3
\* folders dropped on the GUI's window
MaxDrops == 2

(***************************************************************************)
(* Option<T>                                                               *)
(***************************************************************************)
None == <<>>
Some(x) == <<x>>
IsSome(o) == Len(o) = 1
IsNone(o) == Len(o) = 0
Unwrap(o) == o[1]

(***************************************************************************)
(* lib.rs:8-11, 27-31, 356-361                                             *)
(***************************************************************************)
POSITIONS == <<" ", "P", "o", "s", "i", "t", "i", "o", "n", "s">>
COMBINED_TXT == <<" ", "C", "o", "m", "b", "i", "n", "e", "d", ".", "t", "x", "t">>
BEAD_PREFIX == <<"B", "e", "a", "d">> \o POSITIONS
MOTOR_PREFIX == <<"M", "o", "t", "o", "r">> \o POSITIONS
BEAD_OUTPUT == BEAD_PREFIX \o COMBINED_TXT
MOTOR_OUTPUT == MOTOR_PREFIX \o COMBINED_TXT

FileType == {"Bead", "Motor"}

output_filename(file_type) ==
    IF file_type = "Bead" THEN "Bead Positions Combined.txt"
    ELSE "Motor Positions Combined.txt"

(***************************************************************************)
(* Byte-string helpers of the Rust standard library used by lib.rs.        *)
(***************************************************************************)
\* str::starts_with
StartsWith(s, prefix) ==
    /\ Len(s) >= Len(prefix)
    /\ SubSeq(s, 1, Len(prefix)) = prefix

\* <[u8]>::ends_with
EndsWith(s, suffix) ==
    /\ Len(s) >= Len(suffix)
    /\ SubSeq(s, Len(s) - Len(suffix) + 1, Len(s)) = suffix

\* Vec::pop
Pop(s) == SubSeq(s, 1, Len(s) - 1)

\* u8::is_ascii_whitespace: space, tab, line feed, form feed, carriage return
is_ascii_whitespace(b) == b \in {" ", "\t", "\n", "\f", "\r"}

\* The bytes that occur in file names, in ascending byte order.
NameBytes ==
    <<" ", ".", "1", "2", "3", "9", "B", "C", "M", "N", "P", "T", "X",
      "a", "b", "d", "e", "i", "m", "n", "o", "r", "s", "t", "x", "0xFF">>

Ord(b) == CHOOSE i \in 1..Len(NameBytes) : NameBytes[i] = b

\* str::cmp(a, b) = Less: lexicographic comparison of the bytes
StrLess(a, b) ==
    \E k \in 1..(Len(b)) :
        /\ k - 1 <= Len(a)
        /\ SubSeq(a, 1, k - 1) = SubSeq(b, 1, k - 1)
        /\ \/ Len(a) = k - 1
           \/ Len(a) >= k /\ Ord(a[k]) < Ord(b[k])

\* OsStr::to_str: Some(the same bytes) when they are valid UTF-8, else None.
\* "0xFF" stands for the byte 0xFF, which occurs in no UTF-8 string.
to_str(os_str) ==
    IF \A i \in 1..Len(os_str) : os_str[i] # "0xFF" THEN Some(os_str) ELSE None

\* Option::and_then(to_str)
and_then_to_str(o) == IF IsSome(o) THEN to_str(Unwrap(o)) ELSE None

\* Option::unwrap_or("")
unwrap_or_empty(o) == IF IsSome(o) THEN Unwrap(o) ELSE <<>>

\* Path::extension: the bytes after the last '.' of the file name; None when
\* there is no '.', or when the only '.' is the first byte.
Extension(name) ==
    LET dots == {i \in 1..Len(name) : name[i] = "."}
        last == CHOOSE i \in dots : \A j \in dots : j <= i
    IN  IF dots = {} \/ last = 1
        THEN None
        ELSE Some(SubSeq(name, last + 1, Len(name)))

(***************************************************************************)
(* lib.rs:399-419                                                          *)
(***************************************************************************)
classify_name(name) ==
    IF StartsWith(name, BEAD_PREFIX) THEN Some("Bead")
    ELSE IF StartsWith(name, MOTOR_PREFIX) THEN Some("Motor")
    ELSE None

\* A variant that takes no name for an output.
is_combined_output_Never(name) == FALSE

is_combined_output(name) == name = BEAD_OUTPUT \/ name = MOTOR_OUTPUT

\* A path is identified by a string; FileName gives the bytes of its file
\* name (Path::file_name, an OsStr).  All paths of a run are in one folder.
TXT == <<".", "t", "x", "t">>
BeadName(d) == BEAD_PREFIX \o <<" ", d>> \o TXT
MotorName(d) == MOTOR_PREFIX \o <<" ", d>> \o TXT

FileName(path) ==
    CASE path = "Bead Positions 1.txt" -> BeadName("1")
      [] path = "Bead Positions 2.txt" -> BeadName("2")
      [] path = "Bead Positions 3.txt" -> BeadName("3")
      [] path = "Motor Positions 1.txt" -> MotorName("1")
      [] path = "Motor Positions 2.txt" -> MotorName("2")
      [] path = "Motor Positions 9.txt" -> MotorName("9")
      [] path = "Bead Positions Combined.txt" -> BEAD_OUTPUT
      [] path = "Motor Positions Combined.txt" -> MOTOR_OUTPUT
      [] path = "Bead Positions.dat" -> BEAD_PREFIX \o <<".", "d", "a", "t">>
      [] path = "Bead Positions 1.TXT" ->
             BEAD_PREFIX \o <<" ", "1", ".", "T", "X", "T">>
      [] path = "Bead Positions 0xFF.txt" -> BeadName("0xFF")
      [] path = "Bead Positions a.txt" -> BeadName("a")
      [] path = "Bead Positions B.txt" -> BeadName("B")
      [] path = "Notes.txt" -> <<"N", "o", "t", "e", "s">> \o TXT

\* lib.rs:417-419, and the same expression at lib.rs:98
file_name_key(path) == unwrap_or_empty(to_str(FileName(path)))

\* A variant that leaves the paths in the order of enumeration.
sort_paths_Unsorted(paths) == paths

sort_paths(paths) ==
    SortSeq(paths, LAMBDA a, b : StrLess(file_name_key(a), file_name_key(b)))

(***************************************************************************)
(* lib.rs:444-483                                                          *)
(***************************************************************************)
\* A variant that removes every trailing carriage return.
RECURSIVE trim_line_end_EveryCr(_)
trim_line_end_EveryCr(buffer) ==
    IF EndsWith(buffer, <<"\n">>) THEN trim_line_end_EveryCr(Pop(buffer))
    ELSE IF EndsWith(buffer, <<"\r">>) THEN trim_line_end_EveryCr(Pop(buffer))
    ELSE buffer

trim_line_end(buffer) ==
    IF EndsWith(buffer, <<"\n">>)
    THEN IF EndsWith(Pop(buffer), <<"\r">>) THEN Pop(Pop(buffer)) ELSE Pop(buffer)
    ELSE IF EndsWith(buffer, <<"\r">>) THEN Pop(buffer)
    ELSE buffer

\* read_until returned `raw` (empty at end of file); the result is
\* Ok(false) = None or Ok(true) with the buffer = Some(buffer).
read_next_line(raw) ==
    IF Len(raw) = 0 THEN None ELSE Some(trim_line_end(raw))

is_whitespace_line(line) ==
    \A i \in 1..Len(line) : is_ascii_whitespace(line[i])

starts_with_hash(line) ==
    LET solid == {i \in 1..Len(line) : ~is_ascii_whitespace(line[i])}
        first == CHOOSE i \in solid : \A j \in solid : i <= j
    IN  solid # {} /\ line[first] = "#"

(***************************************************************************)
(* The environment: what a directory scan lists and what a read returns.   *)
(***************************************************************************)
\* Directory entries a scan can list: input files of both categories, a
\* prior run's output, files of another extension, an unrelated file, a file
\* whose name is not valid UTF-8 and a sub-directory with an input file's
\* name pattern.
Entries ==
    {[path |-> p, is_file |-> TRUE] :
        p \in {"Bead Positions 1.txt", "Bead Positions 2.txt",
               "Motor Positions 1.txt",
               "Bead Positions Combined.txt", "Bead Positions.dat",
               "Bead Positions 1.TXT", "Bead Positions 0xFF.txt",
               "Notes.txt"}}
    \cup {[path |-> "Motor Positions 9.txt", is_file |-> FALSE]}

\* Sequences of at most n elements of S, none occurring twice.
RECURSIVE SeqsNoRepeat(_, _)
SeqsNoRepeat(S, n) ==
    IF n = 0 THEN {<<>>}
    ELSE {<<>>} \cup
         UNION {{<<x>> \o t : t \in SeqsNoRepeat(S \ {x}, n - 1)} : x \in S}

\* The listings read_dir can produce: the entries of a folder in any order.
Listings == SeqsNoRepeat(Entries, MaxFiles)

\* The lists a caller passes to combine_group directly: combine_group only
\* opens the paths it is given, in the order given, so the lists are the
\* prefixes of one list, which is not sorted and names a path twice.
InputPaths ==
    <<"Bead Positions 2.txt", "Bead Positions 1.txt", "Bead Positions 3.txt",
      "Bead Positions 2.txt", "Motor Positions 1.txt", "Motor Positions 2.txt">>

FileLists == {SubSeq(InputPaths, 1, n) : n \in 0..MaxFiles}

\* What read_until can return for one line: a blank line, two different
\* header lines, and data lines terminated by \n or \r\n.
RawLines ==
    {<<" ", "\n">>,
     <<"#", "a", "\n">>, <<"#", "b", "\n">>,
     <<"x", "\n">>, <<"y", "\n">>, <<"x", "\r", "\n">>}

\* The lines read in a run of combine_folder: a blank line, a header line
\* and a data line.
FolderLines == {<<" ", "\n">>, <<"#", "a", "\n">>, <<"x", "\n">>}


(***************************************************************************)
(* lib.rs:76-124  discover_files_with_progress                             *)
(***************************************************************************)
\* A variant that does not look at the extension.
Eligible_AnyExtension(entry) ==
    /\ entry.is_file
    /\ ~is_combined_output(file_name_key(entry.path))

\* lib.rs:89-102: the entries that are not skipped before classification
Eligible(entry) ==
    /\ entry.is_file
    /\ and_then_to_str(Extension(FileName(entry.path))) = Some(<<"t", "x", "t">>)
    /\ ~is_combined_output(file_name_key(entry.path))

\* ProgressEvent::Discovery, as on_discovery is called at lib.rs:107, 111
Discovery(bead_files, motor_files) ==
    [kind |-> "Discovery", bead_files |-> Len(bead_files),
     motor_files |-> Len(motor_files)]

\* A variant that calls on_discovery for the entries it ignores as well.
DiscoverEntry_NotifiesIgnored(d, entry) ==
    LET name == file_name_key(entry.path)
        ignored == [d EXCEPT !.calls =
                                 Append(@, Discovery(d.bead_files, d.motor_files))]
    IN  IF ~Eligible(entry) THEN ignored
        ELSE IF classify_name(name) = Some("Bead")
        THEN LET bead_files == Append(d.bead_files, entry.path)
             IN  [d EXCEPT !.bead_files = bead_files,
                           !.calls = Append(@, Discovery(bead_files, d.motor_files))]
        ELSE IF classify_name(name) = Some("Motor")
        THEN LET motor_files == Append(d.motor_files, entry.path)
             IN  [d EXCEPT !.motor_files = motor_files,
                           !.calls = Append(@, Discovery(d.bead_files, motor_files))]
        ELSE ignored

\* lib.rs:88-114: the body of the for loop for one entry; d holds bead_files,
\* motor_files and the on_discovery calls made so far
DiscoverEntry(d, entry) ==
    LET name == file_name_key(entry.path)
    IN  IF ~Eligible(entry) THEN d
        ELSE IF classify_name(name) = Some("Bead")
        THEN LET bead_files == Append(d.bead_files, entry.path)
             IN  [d EXCEPT !.bead_files = bead_files,
                           !.calls = Append(@, Discovery(bead_files, d.motor_files))]
        ELSE IF classify_name(name) = Some("Motor")
        THEN LET motor_files == Append(d.motor_files, entry.path)
             IN  [d EXCEPT !.motor_files = motor_files,
                           !.calls = Append(@, Discovery(d.bead_files, motor_files))]
        ELSE d

\* lib.rs:83-115: the for loop over the entries read_dir yields
RECURSIVE DiscoverLoop(_, _)
DiscoverLoop(d, listing) ==
    IF listing = <<>> THEN d
    ELSE DiscoverLoop(DiscoverEntry(d, Head(listing)), Tail(listing))

NoFiles == [bead_files |-> <<>>, motor_files |-> <<>>, calls |-> <<>>]

\* lib.rs:76-124: the lists returned when every entry could be read
discover_files(listing) ==
    LET d == DiscoverLoop(NoFiles, listing)
    IN  [bead_files |-> sort_paths(d.bead_files),
         motor_files |-> sort_paths(d.motor_files)]

\* The on_discovery calls made while `listing` is enumerated.
on_discovery(listing) == DiscoverLoop(NoFiles, listing).calls

(***************************************************************************)
(* State                                                                   *)
(***************************************************************************)
VARIABLES
    pc,              \* where the run is: idle, call_bead, call_motor (in
                     \* combine_folder), next_file, read, returned (in
                     \* combine_group), done
    mode,            \* the entry point called: none, folder, group
    report,          \* combine_folder's CombineReport
    discovered,      \* combine_folder's DiscoveredFiles
    processed_files, \* combine_folder's counter behind on_file_processed
    events,          \* the ProgressEvents passed to on_progress, in order
    cg,              \* combine_group's arguments and locals, with the output
                     \* file it writes (disk) and the write_line calls that
                     \* succeeded (log)
    idx,             \* files of cg.files the for loop has finished
    file_header,     \* file_header of the file being read
    reads,           \* lines read in this run
    consumed,        \* per file of the group, in order: what was read of it
    outputs,         \* the output files on disk, per category
    folder,          \* None: the folder's content is whatever the calls find;
                     \* Some: a folder whose entries, file contents and
                     \* failures are fixed, so that it can be read twice
    prior,           \* the report and the outputs of the previous run on the
                     \* same folder, once a second run has started
    result_tx,       \* the reports the GUI's worker sent on its result channel
    cli,             \* run_cli: its arguments, where it is, what it wrote to
                     \* its output and error streams, the code it returned
    app,             \* the GUI's CombinerApp
    update_pc,       \* where CombinerApp::update is: idle (not running),
                     \* poll_progress, poll_result
    threads,         \* the worker threads spawned so far, in order: the
                     \* folder, the steps of the run and how many are done
    progress_ch,     \* per worker, the updates queued in its progress channel
    result_ch,       \* per worker, the reports queued in its result channel
    applied          \* the messages update has received and applied, each
                     \* with the worker whose channel it came from

vars ==
    <<pc, mode, report, discovered, processed_files, events, cg, idx,
      file_header, reads, consumed, outputs, folder, prior, result_tx, cli,
      app, update_pc, threads, progress_ch, result_ch, applied>>

\* The state of the GUI and of its workers.
Gui == <<app, update_pc, threads, progress_ch, result_ch, applied>>

\* The state of the callers of combine_folder.
Callers == <<cli, Gui>>

\* What the steps of combine_folder and combine_group never change.
Fixed == <<folder, prior, result_tx, Callers>>

\* An output file just created.  The content of an output file is the
\* sequence of lines whose write_line call succeeded.
EmptyFile == <<>>

NewSummary(file_type, n) ==
    [file_type |-> file_type, input_files |-> n, output_path |-> None,
     data_lines |-> 0, header |-> None, warnings |-> <<>>, errors |-> <<>>]

\* lib.rs:209-226
NewGroup(file_type, files, output_path) ==
    [file_type |-> file_type, files |-> files, output_path |-> output_path,
     summary |-> NewSummary(file_type, Len(files)),
     writer |-> FALSE, header_ref |-> None, buffered_before_header |-> <<>>,
     saw_readable_file |-> FALSE, returned |-> FALSE,
     disk |-> None, log |-> <<>>]

NoGroup == NewGroup("Bead", <<>>, "Bead Positions Combined.txt")

\* lib.rs:134-141
NewReport ==
    [bead_files |-> 0, motor_files |-> 0, bead |-> None, motor |-> None,
     errors |-> <<>>]

\* run_cli has not been called.
NoCli == [pc |-> "none", args |-> <<>>, out |-> <<>>, err |-> <<>>,
          exit_code |-> None]

\* magmerge_gui.rs:50-67: CombinerApp::default()
NoApp ==
    [folder |-> None, report |-> None, status_message |-> None,
     processing |-> FALSE, processed_files |-> 0, total_files |-> 0,
     current_file |-> None, discovered_bead |-> 0, discovered_motor |-> 0,
     scanning |-> FALSE, progress_rx |-> None, result_rx |-> None]

\* The state before any call, but for the folder.
Idle ==
    /\ pc = "idle"
    /\ mode = "none"
    /\ report = NewReport
    /\ discovered = [bead_files |-> <<>>, motor_files |-> <<>>]
    /\ processed_files = 0
    /\ events = <<>>
    /\ cg = NoGroup
    /\ idx = 0
    /\ file_header = None
    /\ reads = 0
    /\ consumed = <<>>
    /\ outputs = [t \in FileType |-> None]
    /\ prior = None
    /\ result_tx = <<>>
    /\ cli = NoCli
    /\ app = NoApp
    /\ update_pc = "idle"
    /\ threads = <<>>
    /\ progress_ch = <<>>
    /\ result_ch = <<>>
    /\ applied = <<>>

Init == Idle /\ folder = None

(***************************************************************************)
(* A fixed folder: its entries, whether it can be listed, for each input   *)
(* file whether it opens, the lines read_until returns and whether reading *)
(* ends with an error, and for each category whether File::create succeeds *)
(* and how many write_line calls succeed (None: all of them).              *)
(***************************************************************************)
Min(a, b) == IF a <= b THEN a ELSE b

\* The output files that exist are entries of the folder as well.
OutputEntries ==
    {[path |-> output_filename(t), is_file |-> TRUE] :
        t \in {u \in FileType : outputs[u] # None}}

Present == Unwrap(folder).entries \cup OutputEntries

\* fs::read_dir yields the entries in any order.
ReadDir ==
    IF IsNone(folder) THEN Listings
    ELSE {l \in SeqsNoRepeat(Present, Cardinality(Present)) :
             Len(l) = Cardinality(Present)}

\* The entries read before read_dir, or the next entry, returned an error.
ReadDirFailing ==
    IF IsNone(folder) THEN Listings
    ELSE {l \in SeqsNoRepeat(Present, Cardinality(Present)) :
             Len(l) < Cardinality(Present) \/ l = <<>>}

\* write_line writes the line and "\n"; read_until returns both.
AsRead(lines) == [i \in 1..Len(lines) |-> Append(lines[i], "\n")]

\* What a fixed folder holds at `path`: an input file, or an output file,
\* with the lines a run wrote to it or, left by an earlier run, empty.
FileAt(path) ==
    IF path \in DOMAIN Unwrap(folder).files THEN Unwrap(folder).files[path]
    ELSE LET t == CHOOSE u \in FileType : output_filename(u) = path
         IN  [status |-> "eof",
              lines |-> IF outputs[t] = None THEN <<>>
                        ELSE AsRead(Unwrap(outputs[t]))]

\* The lines read_next_line has returned of the file being read.
LinesRead == Len(consumed[Len(consumed)].lines)

\* File::open(path) may return Ok / Err.
MayOpen(path, ok) ==
    IF IsNone(folder) THEN TRUE
    ELSE ok <=> FileAt(path).status # "open_failed"

\* read_until on the file at `path` may return `raw` as the next line.
MayRead(path, raw) ==
    IF IsNone(folder) THEN TRUE
    ELSE /\ LinesRead < Len(FileAt(path).lines)
         /\ raw = FileAt(path).lines[LinesRead + 1]

\* read_until on the file at `path` may end with `status` (eof, read_failed).
MayEnd(path, status) ==
    IF IsNone(folder) THEN TRUE
    ELSE /\ LinesRead = Len(FileAt(path).lines)
         /\ FileAt(path).status = status

\* Two more Bead input files, whose names differ in a letter's case.
DiscoverEntries ==
    Entries \cup {[path |-> p, is_file |-> TRUE] :
                     p \in {"Bead Positions a.txt", "Bead Positions B.txt"}}

\* The fixed folders discovery is checked on: at most MaxFiles of the
\* entries; nothing is read or written.
DiscoverFolders ==
    {[entries |-> E, listable |-> l, files |-> [p \in {} |-> <<>>],
      create |-> [t \in FileType |-> TRUE],
      ok_writes |-> [t \in FileType |-> None]] :
        E \in {F \in SUBSET DiscoverEntries : Cardinality(F) <= MaxFiles},
        l \in BOOLEAN}

\* The fixed folders combine_folder is run twice on: up to two of three
\* input files, with or without the output of an earlier run, and a folder
\* that cannot be listed.
RerunPaths ==
    {"Bead Positions 1.txt", "Bead Positions 2.txt", "Motor Positions 1.txt"}

RerunContents == {<<>>, <<<<"#", "a", "\n">>>>, <<<<"x", "\n">>>>}

FileStates ==
    {[status |-> "open_failed", lines |-> <<>>]}
    \cup {[status |-> st, lines |-> c] :
              st \in {"eof", "read_failed"}, c \in RerunContents}

\* At most one category's output fails: on File::create, or on the second
\* write_line.
NoWriteFailure ==
    [create |-> [t \in FileType |-> TRUE],
     ok_writes |-> [t \in FileType |-> None]]

WriteFailures ==
    {NoWriteFailure}
    \cup {[create |-> [t \in FileType |-> t # u],
           ok_writes |-> [t \in FileType |-> None]] : u \in FileType}
    \cup {[create |-> [t \in FileType |-> TRUE],
           ok_writes |-> [t \in FileType |-> IF t = u THEN Some(1) ELSE None]] :
              u \in FileType}

RerunFolder(P, l, f, w) ==
    [entries |-> {[path |-> p, is_file |-> TRUE] : p \in P},
     listable |-> l, files |-> f,
     create |-> w.create, ok_writes |-> w.ok_writes]

RerunFolders ==
    UNION {{RerunFolder(P \cup X, TRUE, f, w) :
               X \in SUBSET {"Bead Positions Combined.txt"},
               f \in [P -> FileStates],
               w \in WriteFailures} : P \in (SUBSET RerunPaths) \ {RerunPaths}}
    \cup {RerunFolder(P, FALSE, [q \in P |-> s], NoWriteFailure) :
              P \in {{"Bead Positions 1.txt", "Motor Positions 1.txt"}},
              s \in {t \in FileStates : t.status = "eof" /\ t.lines # <<>>}}

(***************************************************************************)
(* lib.rs:377-397                                                          *)
(***************************************************************************)
collect_warnings(r) ==
    (IF IsSome(r.bead) THEN Unwrap(r.bead).warnings ELSE <<>>)
        \o (IF IsSome(r.motor) THEN Unwrap(r.motor).warnings ELSE <<>>)

collect_errors(r) ==
    r.errors
        \o (IF IsSome(r.bead) THEN Unwrap(r.bead).errors ELSE <<>>)
        \o (IF IsSome(r.motor) THEN Unwrap(r.motor).errors ELSE <<>>)

(***************************************************************************)
(* lib.rs:421-469  the output writer                                       *)
(***************************************************************************)
Error(file, message) == [file |-> file, message |-> message]
Warning(file, message) == [file |-> file, message |-> message]

\* The outcomes of the output operations of one step on group g: whether
\* File::create succeeds (when it is called) and how many write_line calls
\* succeed before one fails (a step makes at most one call per buffered line
\* and one more).
Outcomes(g) ==
    IF IsNone(folder)
    THEN {env \in [create : BOOLEAN,
                   ok_writes : 0..(Len(g.buffered_before_header) + 1)] :
             /\ g.writer => env.create
             /\ ~env.create => env.ok_writes = 0}
    ELSE LET create == g.writer \/ Unwrap(folder).create[g.file_type]
             most == Len(g.buffered_before_header) + 1
             limit == Unwrap(folder).ok_writes[g.file_type]
             left == IF IsNone(limit) THEN most
                     ELSE IF Unwrap(limit) > Len(g.log)
                     THEN Unwrap(limit) - Len(g.log)
                     ELSE 0
         IN  {[create |-> create,
               ok_writes |-> IF create THEN Min(most, left) ELSE 0]}

\* The result of the j-th write_line call of a step under outcome env.
WriteResult(j, env) == IF j <= env.ok_writes THEN "ok" ELSE "fail"

\* write_line on the output file: the line and "\n" are appended.
write_line(file, line, result) ==
    IF result = "ok" THEN Append(file, line) ELSE file

\* ensure_output_writer; a None result is g.returned = TRUE, since every
\* caller returns the summary on None.
ensure_output_writer(g, env) ==
    IF g.writer THEN g
    ELSE IF env.create
    THEN [g EXCEPT !.writer = TRUE,
                   !.summary.output_path = Some(g.output_path),
                   !.disk = Some(EmptyFile)]
    ELSE [g EXCEPT !.summary.errors =
                       Append(@, Error(Some(g.output_path), "Failed to create output")),
                   !.returned = TRUE]

(***************************************************************************)
(* lib.rs:264-319, 330-353  what combine_group does with a line            *)
(***************************************************************************)
\* A variant that records the error and goes on.
WriteFailed_GoesOn(g, line, result) ==
    [g EXCEPT !.disk = Some(write_line(Unwrap(@), line, result)),
              !.summary.errors =
                  Append(@, Error(Some(g.output_path), "Failed to write output"))]

\* lib.rs:276-280, 285-289, 312-316, 337-341: write_line returned Err
WriteFailed(g, line, result) ==
    [g EXCEPT !.disk = Some(write_line(Unwrap(@), line, result)),
              !.summary.errors =
                  Append(@, Error(Some(g.output_path), "Failed to write output")),
              !.returned = TRUE]

\* A variant that counts the header line in data_lines.
WriteHeader_Counted(g, header, j, env) ==
    LET result == WriteResult(j, env)
    IN  IF result = "ok"
        THEN [g EXCEPT !.disk = Some(write_line(Unwrap(@), header, result)),
                       !.log = Append(@, [kind |-> "header", line |-> header]),
                       !.summary.data_lines = @ + 1]
        ELSE WriteFailed(g, header, result)

\* lib.rs:274-282: the canonical header is written, as the j-th write
WriteHeader(g, header, j, env) ==
    LET result == WriteResult(j, env)
    IN  IF result = "ok"
        THEN [g EXCEPT !.disk = Some(write_line(Unwrap(@), header, result)),
                       !.log = Append(@, [kind |-> "header", line |-> header])]
        ELSE WriteFailed(g, header, result)

\* lib.rs:284-291, 311-318, 336-343: a data line is written, as the j-th
\* write, and counted
WriteData(g, line, j, env) ==
    LET result == WriteResult(j, env)
    IN  IF result = "ok"
        THEN [g EXCEPT !.disk = Some(write_line(Unwrap(@), line, result)),
                       !.log = Append(@, [kind |-> "data", line |-> line]),
                       !.summary.data_lines = @ + 1]
        ELSE WriteFailed(g, line, result)

\* lib.rs:283-292, 335-344: for line in buffered_before_header.drain(..),
\* the first line being the j-th write of the step
RECURSIVE Drain(_, _, _)
Drain(g, j, env) ==
    IF g.returned \/ g.buffered_before_header = <<>>
    THEN [g EXCEPT !.buffered_before_header = <<>>]
    ELSE Drain(WriteData([g EXCEPT !.buffered_before_header = Tail(@)],
                         Head(g.buffered_before_header), j, env),
               j + 1, env)

\* A variant in which the header of every file replaces the canonical header
\* and is written.
HeaderLine_LastWins(g, path, buffer, env) ==
    LET g1 == ensure_output_writer(g, env)
    IN  IF g1.returned THEN g1
        ELSE Drain(WriteHeader([g1 EXCEPT !.header_ref = Some(buffer),
                                          !.summary.header = Some(buffer)],
                               buffer, 1, env),
                   2, env)

\* A variant that warns about every later header, equal or not.
HeaderLine_WarnsAlways(g, path, buffer, env) ==
    LET g1 == ensure_output_writer(g, env)
    IN  IF g1.returned THEN g1
        ELSE IF IsNone(g1.header_ref)
        THEN Drain(WriteHeader([g1 EXCEPT !.header_ref = Some(buffer),
                                          !.summary.header = Some(buffer)],
                               buffer, 1, env),
                   2, env)
        ELSE [g1 EXCEPT !.summary.warnings =
                            Append(@, Warning(path, "Header mismatch"))]

\* lib.rs:264-300: the first line of the file at `path` that starts with '#'
HeaderLine(g, path, buffer, env) ==
    LET g1 == ensure_output_writer(g, env)
    IN  IF g1.returned THEN g1
        ELSE IF IsNone(g1.header_ref)
        THEN LET g2 == WriteHeader([g1 EXCEPT !.header_ref = Some(buffer),
                                              !.summary.header = Some(buffer)],
                                   buffer, 1, env)
             IN  Drain(g2, 2, env)
        ELSE IF g1.header_ref # Some(buffer)
        THEN [g1 EXCEPT !.summary.warnings =
                            Append(@, Warning(path, "Header mismatch"))]
        ELSE g1

\* A variant that keeps only the latest line read before the header.
DataLine_KeepsLast(g, buffer, env) ==
    IF IsNone(g.header_ref)
    THEN [g EXCEPT !.buffered_before_header = <<buffer>>]
    ELSE LET g1 == ensure_output_writer(g, env)
         IN  IF g1.returned THEN g1 ELSE WriteData(g1, buffer, 1, env)

\* A variant that writes a data line at once, header known or not.
DataLine_Unbuffered(g, buffer, env) ==
    LET g1 == ensure_output_writer(g, env)
    IN  IF g1.returned THEN g1 ELSE WriteData(g1, buffer, 1, env)

\* lib.rs:302-318: any other non-blank line
DataLine(g, buffer, env) ==
    IF IsNone(g.header_ref)
    THEN [g EXCEPT !.buffered_before_header = Append(@, buffer)]
    ELSE LET g1 == ensure_output_writer(g, env)
         IN  IF g1.returned THEN g1 ELSE WriteData(g1, buffer, 1, env)

\* A variant that does not skip blank lines.
ProcessLine_KeepsBlank(g, path, fh, buffer, env) ==
    IF IsNone(fh) /\ starts_with_hash(buffer)
    THEN HeaderLine(g, path, buffer, env)
    ELSE DataLine(g, buffer, env)

\* lib.rs:260-319: one iteration of the read loop on a line that was read
ProcessLine(g, path, fh, buffer, env) ==
    IF is_whitespace_line(buffer) THEN g
    ELSE IF IsNone(fh) /\ starts_with_hash(buffer)
    THEN HeaderLine(g, path, buffer, env)
    ELSE DataLine(g, buffer, env)

\* A variant in which the file's header is not remembered.
NextFileHeader_Forgets(fh, buffer) == None

\* lib.rs:264-265: file_header after that iteration
NextFileHeader(fh, buffer) ==
    IF ~is_whitespace_line(buffer) /\ IsNone(fh) /\ starts_with_hash(buffer)
    THEN Some(buffer)
    ELSE fh

\* lib.rs:330-345: the lines still buffered when no file had a header
FlushHeaderless(g, env) ==
    IF IsNone(g.header_ref) /\ g.buffered_before_header # <<>>
    THEN LET g1 == ensure_output_writer(g, env)
         IN  IF g1.returned THEN g1 ELSE Drain(g1, 1, env)
    ELSE g

\* A variant that never creates an output no line is written to.
CreateIfReadable_Never(g, env) == g

\* A variant that creates the output whether or not a file was readable.
CreateIfReadable_Always(g, env) ==
    IF ~g.returned /\ ~g.writer THEN ensure_output_writer(g, env) ELSE g

\* lib.rs:347-351
CreateIfReadable(g, env) ==
    IF ~g.returned /\ ~g.writer /\ g.saw_readable_file
    THEN ensure_output_writer(g, env)
    ELSE g

\* lib.rs:330-353: after the last file
Finish(g, env) ==
    [CreateIfReadable(FlushHeaderless(g, env), env) EXCEPT !.returned = TRUE]

(***************************************************************************)
(* lib.rs:130-194  combine_folder_with_progress                            *)
(***************************************************************************)
GroupVars == <<cg, idx, file_header, reads, consumed, outputs>>

\* lib.rs:143-148: the on_discovery closure passes each Discovery event to
\* on_progress
on_progress(calls) == calls

\* A variant that records the error and goes on with the files found so far.
ScanFails_GoesOn ==
    /\ pc = "idle"
    /\ IF IsNone(folder) THEN TRUE ELSE ~Unwrap(folder).listable
    /\ mode' = "folder"
    /\ \E listing \in ReadDirFailing :
           /\ discovered' = discover_files(listing)
           /\ events' = events \o on_progress(on_discovery(listing))
    /\ report' = [report EXCEPT
                      !.errors = Append(@, Error(None, "Failed to scan folder")),
                      !.bead_files = Len(discovered'.bead_files),
                      !.motor_files = Len(discovered'.motor_files)]
    /\ pc' = "call_bead"
    /\ UNCHANGED processed_files
    /\ UNCHANGED GroupVars
    /\ UNCHANGED Fixed

\* lib.rs:143-157: the directory cannot be listed
ScanFails ==
    /\ pc = "idle"
    /\ IF IsNone(folder) THEN TRUE ELSE ~Unwrap(folder).listable
    /\ mode' = "folder"
    /\ \E listing \in ReadDirFailing :
           events' = events \o on_progress(on_discovery(listing))
    /\ report' = [report EXCEPT
                      !.errors = Append(@, Error(None, "Failed to scan folder"))]
    /\ pc' = "done"
    /\ UNCHANGED <<discovered, processed_files>>
    /\ UNCHANGED GroupVars
    /\ UNCHANGED Fixed

\* lib.rs:143-162: the directory is listed
ScanOk ==
    /\ pc = "idle"
    /\ IF IsNone(folder) THEN TRUE ELSE Unwrap(folder).listable
    /\ mode' = "folder"
    /\ \E listing \in ReadDir :
           /\ discovered' = discover_files(listing)
           /\ events' = events \o on_progress(on_discovery(listing))
    /\ report' = [report EXCEPT
                      !.bead_files = Len(discovered'.bead_files),
                      !.motor_files = Len(discovered'.motor_files)]
    /\ pc' = "call_bead"
    /\ UNCHANGED processed_files
    /\ UNCHANGED GroupVars
    /\ UNCHANGED Fixed

FilesOf(file_type) ==
    IF file_type = "Bead" THEN discovered.bead_files ELSE discovered.motor_files

CallPc(file_type) == IF file_type = "Bead" THEN "call_bead" ELSE "call_motor"

\* What follows a category's group in combine_folder_with_progress.
AfterGroup(file_type) == IF file_type = "Bead" THEN "call_motor" ELSE "done"

\* lib.rs:173-181, 183-191: the category has files, combine_group is entered
CallGroup(file_type) ==
    /\ pc = CallPc(file_type)
    /\ FilesOf(file_type) # <<>>
    /\ cg' = NewGroup(file_type, FilesOf(file_type), output_filename(file_type))
    /\ idx' = 0
    /\ consumed' = <<>>
    /\ file_header' = None
    /\ pc' = "next_file"
    /\ UNCHANGED <<mode, report, discovered, processed_files, events, reads, outputs>>
    /\ UNCHANGED Fixed

\* A variant that stores the summary of an empty group.
SkipGroup_StoresSummary(file_type) ==
    /\ pc = CallPc(file_type)
    /\ FilesOf(file_type) = <<>>
    /\ report' = IF file_type = "Bead"
                 THEN [report EXCEPT !.bead = Some(NewSummary(file_type, 0))]
                 ELSE [report EXCEPT !.motor = Some(NewSummary(file_type, 0))]
    /\ pc' = AfterGroup(file_type)
    /\ UNCHANGED <<mode, discovered, processed_files, events>>
    /\ UNCHANGED GroupVars
    /\ UNCHANGED Fixed

\* lib.rs:173, 183: the category has no file
SkipGroup(file_type) ==
    /\ pc = CallPc(file_type)
    /\ FilesOf(file_type) = <<>>
    /\ pc' = AfterGroup(file_type)
    /\ UNCHANGED <<mode, report, discovered, processed_files, events>>
    /\ UNCHANGED GroupVars
    /\ UNCHANGED Fixed

\* A variant in which a group that failed on its output ends the run.
StoreSummary_AbortsRun ==
    /\ pc = "returned"
    /\ mode = "folder"
    /\ report' = IF cg.file_type = "Bead"
                 THEN [report EXCEPT !.bead = Some(cg.summary)]
                 ELSE [report EXCEPT !.motor = Some(cg.summary)]
    /\ pc' = IF \E i \in 1..Len(cg.summary.errors) :
                    cg.summary.errors[i].file = Some(cg.output_path)
             THEN "done"
             ELSE AfterGroup(cg.file_type)
    /\ UNCHANGED <<mode, discovered, processed_files, events>>
    /\ UNCHANGED GroupVars
    /\ UNCHANGED Fixed

\* lib.rs:175, 185, 193: the group's summary is stored in the report
StoreSummary ==
    /\ pc = "returned"
    /\ mode = "folder"
    /\ report' = IF cg.file_type = "Bead"
                 THEN [report EXCEPT !.bead = Some(cg.summary)]
                 ELSE [report EXCEPT !.motor = Some(cg.summary)]
    /\ pc' = AfterGroup(cg.file_type)
    /\ UNCHANGED <<mode, discovered, processed_files, events>>
    /\ UNCHANGED GroupVars
    /\ UNCHANGED Fixed

(***************************************************************************)
(* lib.rs:196-354  combine_group / combine_group_with_progress             *)
(***************************************************************************)
\* lib.rs:196-221: a caller combines the list `files` directly.  The
\* file_type is only copied to the summary.
CombineGroupCall(file_type, files) ==
    /\ pc = "idle"
    /\ mode' = "group"
    /\ cg' = [NewGroup(file_type, files, output_filename(file_type))
                  EXCEPT !.returned = (files = <<>>)]
    /\ pc' = IF files = <<>> THEN "returned" ELSE "next_file"
    /\ UNCHANGED <<report, discovered, processed_files, events, idx,
                   file_header, reads, consumed, outputs>>
    /\ UNCHANGED Fixed

\* A variant that names the Bead category in every notification.
on_file_processed_AlwaysBead(path) ==
    IF mode = "folder"
    THEN /\ processed_files' = processed_files + 1
         /\ events' = Append(events,
                [kind |-> "Combine",
                 processed_files |-> processed_files + 1,
                 total_files |-> report.bead_files + report.motor_files,
                 file_type |-> "Bead",
                 current_file |-> path])
    ELSE UNCHANGED <<processed_files, events>>

\* A variant whose total is the number of files of the group.
on_file_processed_GroupTotal(path) ==
    IF mode = "folder"
    THEN /\ processed_files' = processed_files + 1
         /\ events' = Append(events,
                [kind |-> "Combine",
                 processed_files |-> processed_files + 1,
                 total_files |-> Len(cg.files),
                 file_type |-> cg.file_type,
                 current_file |-> path])
    ELSE UNCHANGED <<processed_files, events>>

\* lib.rs:163-171 (combine_folder's closure), 197 (combine_group's no-op)
on_file_processed(path) ==
    IF mode = "folder"
    THEN /\ processed_files' = processed_files + 1
         /\ events' = Append(events,
                [kind |-> "Combine",
                 processed_files |-> processed_files + 1,
                 total_files |-> report.bead_files + report.motor_files,
                 file_type |-> cg.file_type,
                 current_file |-> path])
    ELSE UNCHANGED <<processed_files, events>>

CurrentPath == cg.files[idx + 1]

Consumed(path, status, lines) ==
    [path |-> path, status |-> status, lines |-> lines]

SetLast(seq, x) == [seq EXCEPT ![Len(seq)] = x]

Disk(g) == IF IsSome(g.disk) THEN [outputs EXCEPT ![g.file_type] = g.disk]
           ELSE outputs

\* A variant that does not notify of a file that could not be opened.
OpenFails_Silent ==
    /\ pc = "next_file"
    /\ idx < Len(cg.files)
    /\ MayOpen(CurrentPath, FALSE)
    /\ cg' = [cg EXCEPT !.summary.errors =
                            Append(@, Error(Some(CurrentPath), "Failed to read file"))]
    /\ idx' = idx + 1
    /\ consumed' = Append(consumed, Consumed(CurrentPath, "open_failed", <<>>))
    /\ UNCHANGED <<pc, mode, report, discovered, file_header, reads, outputs,
                   processed_files, events>>
    /\ UNCHANGED Fixed

\* lib.rs:229-239: File::open fails
OpenFails ==
    /\ pc = "next_file"
    /\ idx < Len(cg.files)
    /\ MayOpen(CurrentPath, FALSE)
    /\ cg' = [cg EXCEPT !.summary.errors =
                            Append(@, Error(Some(CurrentPath), "Failed to read file"))]
    /\ on_file_processed(CurrentPath)
    /\ idx' = idx + 1
    /\ consumed' = Append(consumed, Consumed(CurrentPath, "open_failed", <<>>))
    /\ UNCHANGED <<pc, mode, report, discovered, file_header, reads, outputs>>
    /\ UNCHANGED Fixed

\* lib.rs:229-244: File::open succeeds
OpenOk ==
    /\ pc = "next_file"
    /\ idx < Len(cg.files)
    /\ MayOpen(CurrentPath, TRUE)
    /\ file_header' = None
    /\ consumed' = Append(consumed, Consumed(CurrentPath, "reading", <<>>))
    /\ pc' = "read"
    /\ UNCHANGED <<mode, report, discovered, processed_files, events, cg,
                   idx, reads, outputs>>
    /\ UNCHANGED Fixed

\* lib.rs:246-319: read_next_line returns a line, which is processed
ReadLine(raw, env) ==
    /\ pc = "read"
    /\ IF IsNone(folder) THEN reads < MaxReads ELSE TRUE
    /\ MayRead(CurrentPath, raw)
    /\ LET buffer == Unwrap(read_next_line(raw))
           g == ProcessLine(cg, CurrentPath, file_header, buffer, env)
           last == consumed[Len(consumed)]
       IN  /\ cg' = g
           /\ file_header' = NextFileHeader(file_header, buffer)
           /\ consumed' = SetLast(consumed,
                              [last EXCEPT !.lines = Append(@, buffer)])
           /\ outputs' = Disk(g)
           /\ pc' = IF g.returned THEN "returned" ELSE "read"
    /\ reads' = reads + 1
    /\ UNCHANGED <<mode, report, discovered, processed_files, events, idx>>
    /\ UNCHANGED Fixed

\* lib.rs:249, 326-327: read_next_line returns Ok(false)
ReadEof ==
    /\ pc = "read"
    /\ MayEnd(CurrentPath, "eof")
    /\ cg' = [cg EXCEPT !.saw_readable_file = TRUE]
    /\ on_file_processed(CurrentPath)
    /\ idx' = idx + 1
    /\ consumed' = SetLast(consumed,
                       [consumed[Len(consumed)] EXCEPT !.status = "eof"])
    /\ pc' = "next_file"
    /\ UNCHANGED <<mode, report, discovered, file_header, reads,
                   outputs>>
    /\ UNCHANGED Fixed

\* A variant in which a read error ends the group.
ReadFails_Aborts ==
    /\ pc = "read"
    /\ MayEnd(CurrentPath, "read_failed")
    /\ cg' = [cg EXCEPT !.summary.errors =
                            Append(@, Error(Some(CurrentPath), "Failed to read file")),
                        !.returned = TRUE]
    /\ on_file_processed(CurrentPath)
    /\ consumed' = SetLast(consumed,
                       [consumed[Len(consumed)] EXCEPT !.status = "read_failed"])
    /\ pc' = "returned"
    /\ UNCHANGED <<mode, report, discovered, idx, file_header, reads, outputs>>
    /\ UNCHANGED Fixed

\* lib.rs:250-257, 321-324: read_next_line returns Err
ReadFails ==
    /\ pc = "read"
    /\ MayEnd(CurrentPath, "read_failed")
    /\ cg' = [cg EXCEPT !.summary.errors =
                            Append(@, Error(Some(CurrentPath), "Failed to read file"))]
    /\ on_file_processed(CurrentPath)
    /\ idx' = idx + 1
    /\ consumed' = SetLast(consumed,
                       [consumed[Len(consumed)] EXCEPT !.status = "read_failed"])
    /\ pc' = "next_file"
    /\ UNCHANGED <<mode, report, discovered, file_header, reads,
                   outputs>>
    /\ UNCHANGED Fixed

\* lib.rs:330-353: the for loop is over
AfterLastFile(env) ==
    /\ pc = "next_file"
    /\ idx = Len(cg.files)
    /\ cg' = Finish(cg, env)
    /\ outputs' = Disk(cg')
    /\ pc' = "returned"
    /\ UNCHANGED <<mode, report, discovered, processed_files, events, idx,
                   file_header, reads, consumed>>
    /\ UNCHANGED Fixed

\* What read_until can return in the run under way: in a fixed folder, the
\* lines of the file being read.
LinesToRead ==
    IF IsNone(folder)
    THEN IF mode = "folder" THEN FolderLines ELSE RawLines
    ELSE IF pc = "read"
    THEN {FileAt(CurrentPath).lines[i] :
             i \in 1..Len(FileAt(CurrentPath).lines)}
    ELSE {}

\* The steps of combine_group_with_progress on the list it was given.
GroupStep ==
    \/ OpenFails
    \/ OpenOk
    \/ \E raw \in LinesToRead : \E env \in Outcomes(cg) : ReadLine(raw, env)
    \/ ReadEof
    \/ ReadFails
    \/ \E env \in Outcomes(cg) : AfterLastFile(env)

\* A run of combine_folder_with_progress.
Next ==
    \/ ScanFails
    \/ ScanOk
    \/ \E file_type \in FileType : CallGroup(file_type)
    \/ \E file_type \in FileType : SkipGroup(file_type)
    \/ StoreSummary
    \/ GroupStep

Spec == Init /\ [][Next]_vars

(***************************************************************************)
(* discover_files on a fixed folder, as combine_folder calls it.           *)
(***************************************************************************)
DiscoverInit == Idle /\ folder \in {Some(f) : f \in DiscoverFolders}

DiscoverNext ==
    \/ ScanFails
    \/ ScanOk

DiscoverSpec == DiscoverInit /\ [][DiscoverNext]_vars

(***************************************************************************)
(* combine_folder run twice in a row on a fixed folder.                    *)
(***************************************************************************)
RerunInit == Idle /\ folder \in {Some(f) : f \in RerunFolders}

\* The first run has returned its report; combine_folder is about to be
\* called again.  The folder and the output files stay as they are.
RunAgain ==
    /\ pc = "done"
    /\ IsNone(prior)
    /\ prior' = Some([report |-> report, outputs |-> outputs])
    /\ pc' = "idle"
    /\ mode' = "none"
    /\ report' = NewReport
    /\ discovered' = [bead_files |-> <<>>, motor_files |-> <<>>]
    /\ processed_files' = 0
    /\ events' = <<>>
    /\ cg' = NoGroup
    /\ idx' = 0
    /\ file_header' = None
    /\ reads' = 0
    /\ consumed' = <<>>
    /\ UNCHANGED <<outputs, folder, result_tx>>
    /\ UNCHANGED Callers

RerunNext ==
    \/ Next
    \/ RunAgain

RerunSpec == RerunInit /\ [][RerunNext]_vars

(***************************************************************************)
(* magmerge_gui.rs:99-104  the worker thread the GUI spawns                *)
(***************************************************************************)
\* magmerge_gui.rs:100-102: on_progress sends the update on the progress
\* channel (an unbounded mpsc channel: send never blocks, and its result is
\* ignored), so the updates sent are the on_progress calls.
progress_tx == events

\* A variant in which the report is sent as soon as the Bead group is over.
SendResult_BeforeMotor ==
    /\ pc \in {"call_motor", "done"}
    /\ mode = "folder"
    /\ result_tx = <<>>
    /\ result_tx' = Append(result_tx, report)
    /\ pc' = IF pc = "done" THEN "exited" ELSE pc
    /\ UNCHANGED <<mode, report, discovered, processed_files, events>>
    /\ UNCHANGED GroupVars
    /\ UNCHANGED <<folder, prior>>
    /\ UNCHANGED Callers

\* magmerge_gui.rs:103: combine_folder_with_progress has returned, the
\* report is sent on the result channel and the thread ends
SendResult ==
    /\ pc = "done"
    /\ mode = "folder"
    /\ result_tx' = Append(result_tx, report)
    /\ pc' = "exited"
    /\ UNCHANGED <<mode, report, discovered, processed_files, events>>
    /\ UNCHANGED GroupVars
    /\ UNCHANGED <<folder, prior>>
    /\ UNCHANGED Callers

WorkerNext ==
    \/ Next
    \/ SendResult

WorkerSpec == Init /\ [][WorkerNext]_vars

(***************************************************************************)
(* cli.rs:6-78  run_cli and what it prints                                 *)
(*                                                                         *)
(* A line written with writeln! is a record: its fixed text and the values *)
(* formatted into it.  The streams are the lines written to them, in       *)
(* order; every write to them succeeds.                                    *)
(***************************************************************************)
\* Path::display of an Option<PathBuf>, cli.rs:67-71
display_or_not_created(output_path) ==
    IF IsSome(output_path) THEN Unwrap(output_path) ELSE "(not created)"

\* cli.rs:66-78: "{} output: {} (lines: {})"
print_group(summary, label) ==
    [line |-> "output", label |-> label,
     output |-> display_or_not_created(summary.output_path),
     lines |-> Some(summary.data_lines)]

\* cli.rs:33-43: the line of one category
print_category(summary, label) ==
    IF IsSome(summary) THEN print_group(Unwrap(summary), label)
    ELSE [line |-> "output", label |-> label, output |-> "(not created)",
          lines |-> None]

\* cli.rs:45-51
print_warnings(warnings) ==
    IF warnings = <<>> THEN <<>>
    ELSE <<[line |-> "Warnings:"]>>
         \o [i \in 1..Len(warnings) |->
                [line |-> "warning", file |-> warnings[i].file,
                 message |-> warnings[i].message]]

\* cli.rs:53-63: an error without a file is printed with its message alone
print_errors(errors) ==
    IF errors = <<>> THEN <<>>
    ELSE <<[line |-> "Errors:"]>>
         \o [i \in 1..Len(errors) |->
                [line |-> "error", file |-> errors[i].file,
                 message |-> errors[i].message]]

\* cli.rs:24-26: the folder (report.folder is the argument, lib.rs:135) and
\* the two counts
print_counts(r, path) ==
    <<[line |-> "Folder", folder |-> path],
      [line |-> "files", label |-> "Bead", count |-> r.bead_files],
      [line |-> "files", label |-> "Motor", count |-> r.motor_files]>>

\* cli.rs:23-64
print_report(r, path) ==
    IF r.bead_files = 0 /\ r.motor_files = 0
    THEN Append(print_counts(r, path), [line |-> "No matching files found."])
    ELSE print_counts(r, path)
         \o <<print_category(r.bead, "Bead"), print_category(r.motor, "Motor")>>
         \o print_warnings(collect_warnings(r))
         \o print_errors(collect_errors(r))

\* The argument vectors run_cli is called with: the program's name alone,
\* with the folder, with the path of a file, and with two arguments.
CliArgs ==
    {<<"magmerge_cli">>, <<"magmerge_cli", "folder">>,
     <<"magmerge_cli", "Notes.txt">>, <<"magmerge_cli", "folder", "folder">>}

\* Path::is_dir, cli.rs:13: of the paths the arguments name, "folder" is the
\* directory the run reads.
is_dir(path) == path = "folder"

\* What a step of run_cli leaves alone.
CliOnly ==
    <<pc, mode, report, discovered, processed_files, events, cg, idx,
      file_header, reads, consumed, outputs, folder, prior, result_tx, Gui>>

\* cli.rs:7-10
UsageError(args) ==
    /\ cli.pc = "none"
    /\ Len(args) # 2
    /\ cli' = [cli EXCEPT !.pc = "returned", !.args = args,
                          !.err = Append(@, [line |-> "Usage: magmerge_cli <folder>"]),
                          !.exit_code = Some(2)]
    /\ UNCHANGED CliOnly

\* cli.rs:12-16
NotAFolder(args) ==
    /\ cli.pc = "none"
    /\ Len(args) = 2
    /\ ~is_dir(args[2])
    /\ cli' = [cli EXCEPT !.pc = "returned", !.args = args,
                          !.err = Append(@, [line |-> "Error: not a folder",
                                             folder |-> args[2]]),
                          !.exit_code = Some(2)]
    /\ UNCHANGED CliOnly

\* cli.rs:12-18: the argument is a folder, combine_folder is called
CallCombineFolder(args) ==
    /\ cli.pc = "none"
    /\ Len(args) = 2
    /\ is_dir(args[2])
    /\ cli' = [cli EXCEPT !.pc = "combine_folder", !.args = args]
    /\ UNCHANGED CliOnly

\* A variant that returns 1 when the report records an error.
PrintReport_ErrorsExitOne ==
    /\ cli.pc = "combine_folder"
    /\ pc = "done"
    /\ cli' = [cli EXCEPT !.pc = "returned",
                          !.out = @ \o print_report(report, cli.args[2]),
                          !.exit_code = IF collect_errors(report) = <<>>
                                        THEN Some(0) ELSE Some(1)]
    /\ UNCHANGED CliOnly

\* cli.rs:18-20: combine_folder has returned
PrintReport ==
    /\ cli.pc = "combine_folder"
    /\ pc = "done"
    /\ cli' = [cli EXCEPT !.pc = "returned",
                          !.out = @ \o print_report(report, cli.args[2]),
                          !.exit_code = Some(0)]
    /\ UNCHANGED CliOnly

\* The contents of the input files of the folders run_cli is called on: as
\* in RerunContents, and a file with another header and a data line.
CliContents ==
    RerunContents \cup {<<<<"#", "b", "\n">>, <<"x", "\n">>>>}

CliFileStates ==
    {[status |-> "open_failed", lines |-> <<>>]}
    \cup {[status |-> st, lines |-> c] :
              st \in {"eof", "read_failed"}, c \in CliContents}

\* The folders run_cli is called on: up to two of three input files, and a
\* folder that cannot be listed.
CliFolders ==
    UNION {{RerunFolder(P, TRUE, f, w) :
               f \in [P -> CliFileStates],
               w \in WriteFailures} : P \in (SUBSET RerunPaths) \ {RerunPaths}}
    \cup {RerunFolder({"Bead Positions 1.txt"}, FALSE,
                      [q \in {"Bead Positions 1.txt"} |->
                          [status |-> "eof", lines |-> <<<<"x", "\n">>>>]],
                      NoWriteFailure)}

CliInit == Idle /\ folder \in {Some(f) : f \in CliFolders}

CliNext ==
    \/ \E args \in CliArgs : UsageError(args)
    \/ \E args \in CliArgs : NotAFolder(args)
    \/ \E args \in CliArgs : CallCombineFolder(args)
    \/ cli.pc = "combine_folder" /\ Next
    \/ PrintReport

CliSpec == CliInit /\ [][CliNext]_vars

(***************************************************************************)
(* magmerge_gui.rs:69-259  CombinerApp::update and the worker threads      *)
(*                                                                         *)
(* update runs on the GUI thread; every try_recv and every send is one     *)
(* step, so the sends of the workers interleave with the polls of update.  *)
(* A worker's run is the sequence of its on_progress calls, of the         *)
(* File::create of each output and the drop of its writer when             *)
(* combine_group returns, and of the send of the report.  The input files  *)
(* of the folders dropped are readable and hold a header and a data line,  *)
(* and their outputs can be written.                                       *)
(***************************************************************************)
\* The folders dropped: A holds a Bead file and an unrelated file, B holds
\* no input file.
GuiFolders == {"A", "B"}

GuiEntries(f) ==
    {[path |-> p, is_file |-> TRUE] :
        p \in IF f = "A" THEN {"Bead Positions 1.txt", "Notes.txt"}
              ELSE {"Notes.txt"}}

\* fs::read_dir on the folder, lib.rs:86
GuiListings(f) ==
    {l \in SeqsNoRepeat(GuiEntries(f), Cardinality(GuiEntries(f))) :
        Len(l) = Cardinality(GuiEntries(f))}

\* lib.rs:174, 184: folder.join(output_filename(file_type))
OutputAt(f, file_type) == <<f, output_filename(file_type)>>

Step(op, arg) == [op |-> op, arg |-> arg]

\* lib.rs:163-171: the notification of the k-th file of the run
CombineNotification(k, total, file_type, path) ==
    [kind |-> "Combine", processed_files |-> k, total_files |-> total,
     file_type |-> file_type, current_file |-> path]

\* lib.rs:173-191, 228-353: a category with files: the output is created
\* when the first file's header is read, each file ends with on_file_processed,
\* and the writer is dropped when combine_group returns
GroupSteps(f, file_type, files, before, total) ==
    IF files = <<>> THEN <<>>
    ELSE <<Step("create", OutputAt(f, file_type))>>
         \o [k \in 1..Len(files) |->
                Step("send", CombineNotification(before + k, total,
                                                 file_type, files[k]))]
         \o <<Step("close", OutputAt(f, file_type))>>

\* lib.rs:209-217, 353: the summary of a group of n readable files
GroupDone(file_type, n) ==
    IF n = 0 THEN None
    ELSE Some([NewSummary(file_type, n) EXCEPT
                   !.output_path = Some(output_filename(file_type)),
                   !.data_lines = n,
                   !.header = Some(<<"#", "a">>)])

\* lib.rs:134-141, 159-160, 175, 185: the report of the run
RunReport(d) ==
    [NewReport EXCEPT
         !.bead_files = Len(d.bead_files),
         !.motor_files = Len(d.motor_files),
         !.bead = GroupDone("Bead", Len(d.bead_files)),
         !.motor = GroupDone("Motor", Len(d.motor_files))]

\* magmerge_gui.rs:99-104 with lib.rs:130-194: the steps of a worker on
\* folder f when read_dir lists it as `listing`
RunSteps(f, listing) ==
    LET d == discover_files(listing)
        total == Len(d.bead_files) + Len(d.motor_files)
        calls == on_progress(on_discovery(listing))
    IN  [i \in 1..Len(calls) |-> Step("send", calls[i])]
            \o GroupSteps(f, "Bead", d.bead_files, 0, total)
            \o GroupSteps(f, "Motor", d.motor_files, Len(d.bead_files), total)
            \o <<Step("result", RunReport(d))>>

\* What the steps of the GUI and of its workers leave alone.
GuiOnly ==
    <<pc, mode, report, discovered, processed_files, events, cg, idx,
      file_header, reads, consumed, outputs, folder, prior, result_tx, cli>>

Workers == 1..Len(threads)

\* The thread has not ended.
Running(w) == threads[w].done < Len(threads[w].steps)

NextStep(w) == threads[w].steps[threads[w].done + 1]

\* A variant in which all workers send on the channels of the first drop.
ChannelOf_Shared(w) == 1

\* magmerge_gui.rs:94-97: every drop creates its own two channels, and the
\* thread spawned for it owns their senders
ChannelOf(w) == w

\* Sender::send: the message is queued if the receiver exists, else send
\* returns Err, which the worker ignores (let _ =).  A queued message keeps
\* the worker that sent it.
Send(ch, rx, w, msg) ==
    IF rx = Some(ChannelOf(w))
    THEN [ch EXCEPT ![ChannelOf(w)] = Append(@, [from |-> w, msg |-> msg])]
    ELSE ch

\* A receiver is dropped: what its channel holds is dropped with it.
DropReceiver(ch, rx) ==
    IF IsSome(rx) THEN [ch EXCEPT ![Unwrap(rx)] = <<>>] ELSE ch

\* magmerge_gui.rs:100-102: on_progress sends the update
WorkerSends(w) ==
    /\ w \in Workers
    /\ Running(w)
    /\ NextStep(w).op = "send"
    /\ progress_ch' = Send(progress_ch, app.progress_rx, w, NextStep(w).arg)
    /\ threads' = [threads EXCEPT ![w].done = @ + 1]
    /\ UNCHANGED <<app, update_pc, result_ch, applied>>
    /\ UNCHANGED GuiOnly

\* lib.rs:427-430: File::create on the output
WorkerCreates(w) ==
    /\ w \in Workers
    /\ Running(w)
    /\ NextStep(w).op = "create"
    /\ threads' = [threads EXCEPT ![w].done = @ + 1]
    /\ UNCHANGED <<app, update_pc, progress_ch, result_ch, applied>>
    /\ UNCHANGED GuiOnly

\* lib.rs:353: combine_group returns, the writer is flushed and dropped
WorkerCloses(w) ==
    /\ w \in Workers
    /\ Running(w)
    /\ NextStep(w).op = "close"
    /\ threads' = [threads EXCEPT ![w].done = @ + 1]
    /\ UNCHANGED <<app, update_pc, progress_ch, result_ch, applied>>
    /\ UNCHANGED GuiOnly

\* magmerge_gui.rs:103: the report is sent and the thread ends
WorkerReports(w) ==
    /\ w \in Workers
    /\ Running(w)
    /\ NextStep(w).op = "result"
    /\ result_ch' = Send(result_ch, app.result_rx, w, NextStep(w).arg)
    /\ threads' = [threads EXCEPT ![w].done = @ + 1]
    /\ UNCHANGED <<app, update_pc, progress_ch, applied>>
    /\ UNCHANGED GuiOnly

WorkerStep(w) ==
    \/ WorkerSends(w)
    \/ WorkerCreates(w)
    \/ WorkerCloses(w)
    \/ WorkerReports(w)

\* magmerge_gui.rs:71-108: update is called with a dropped folder: the state
\* is reset, the channels are replaced and a worker is spawned
Drop(f) ==
    /\ update_pc = "idle"
    /\ Len(threads) < MaxDrops
    /\ \E listing \in GuiListings(f) :
           threads' = Append(threads, [folder |-> f,
                                       steps |-> RunSteps(f, listing),
                                       done |-> 0])
    /\ app' = [app EXCEPT
                   !.folder = Some(f),
                   !.report = None,
                   !.status_message = Some("Folder received. Scanning"),
                   !.processing = TRUE,
                   !.processed_files = 0,
                   !.total_files = 0,
                   !.current_file = None,
                   !.discovered_bead = 0,
                   !.discovered_motor = 0,
                   !.scanning = TRUE,
                   !.progress_rx = Some(ChannelOf(Len(threads) + 1)),
                   !.result_rx = Some(ChannelOf(Len(threads) + 1))]
    /\ progress_ch' = Append(DropReceiver(progress_ch, app.progress_rx), <<>>)
    /\ result_ch' = Append(DropReceiver(result_ch, app.result_rx), <<>>)
    /\ update_pc' = "poll_progress"
    /\ UNCHANGED applied
    /\ UNCHANGED GuiOnly

\* magmerge_gui.rs:71-72: update is called and nothing was dropped
NoDrop ==
    /\ update_pc = "idle"
    /\ update_pc' = "poll_progress"
    /\ UNCHANGED <<app, threads, progress_ch, result_ch, applied>>
    /\ UNCHANGED GuiOnly

\* magmerge_gui.rs:112-148: the update is applied to the state
ApplyProgress(a, update) ==
    IF update.kind = "Discovery"
    THEN [a EXCEPT !.discovered_bead = update.bead_files,
                   !.discovered_motor = update.motor_files,
                   !.status_message = Some("Scanning files"),
                   !.scanning = TRUE]
    ELSE [a EXCEPT !.scanning = FALSE,
                   !.processed_files = update.processed_files,
                   !.total_files = update.total_files,
                   !.current_file = Some(<<update.file_type, update.current_file>>),
                   !.status_message = Some("Processing file")]

\* The progress receiver holds an update.
ProgressQueued ==
    IF IsSome(app.progress_rx)
    THEN progress_ch[Unwrap(app.progress_rx)] # <<>>
    ELSE FALSE

\* A variant that applies the latest update queued and drops the others.
RecvProgress_Latest ==
    /\ update_pc = "poll_progress"
    /\ ProgressQueued
    /\ LET c == Unwrap(app.progress_rx)
           queued == progress_ch[c][Len(progress_ch[c])]
       IN  /\ progress_ch' = [progress_ch EXCEPT ![c] = <<>>]
           /\ app' = ApplyProgress(app, queued.msg)
           /\ applied' = Append(applied, [from |-> queued.from,
                                          kind |-> "progress",
                                          msg |-> queued.msg])
    /\ UNCHANGED <<update_pc, threads, result_ch>>
    /\ UNCHANGED GuiOnly

\* magmerge_gui.rs:110-149: try_recv on the progress receiver returns Ok
RecvProgress ==
    /\ update_pc = "poll_progress"
    /\ ProgressQueued
    /\ LET c == Unwrap(app.progress_rx)
           queued == Head(progress_ch[c])
       IN  /\ progress_ch' = [progress_ch EXCEPT ![c] = Tail(@)]
           /\ app' = ApplyProgress(app, queued.msg)
           /\ applied' = Append(applied, [from |-> queued.from,
                                          kind |-> "progress",
                                          msg |-> queued.msg])
    /\ UNCHANGED <<update_pc, threads, result_ch>>
    /\ UNCHANGED GuiOnly

\* magmerge_gui.rs:110-111: there is no receiver, or try_recv returns Err
ProgressEmpty ==
    /\ update_pc = "poll_progress"
    /\ ~ProgressQueued
    /\ update_pc' = "poll_result"
    /\ UNCHANGED <<app, threads, progress_ch, result_ch, applied>>
    /\ UNCHANGED GuiOnly

\* The result receiver holds a report.
ResultQueued ==
    IF IsSome(app.result_rx)
    THEN result_ch[Unwrap(app.result_rx)] # <<>>
    ELSE FALSE

\* A variant that keeps processing set and keeps both receivers.
ApplyResult_KeepsProcessing(a, r) ==
    [a EXCEPT !.current_file = None,
              !.scanning = FALSE,
              !.report = Some(r)]

\* magmerge_gui.rs:153-165: the report is applied to the state
ApplyResult(a, r) ==
    [a EXCEPT !.processing = FALSE,
              !.progress_rx = None,
              !.result_rx = None,
              !.current_file = None,
              !.scanning = FALSE,
              !.status_message =
                  IF r.bead_files = 0 /\ r.motor_files = 0
                  THEN Some("No matching files found.")
                  ELSE Some("Combine complete."),
              !.report = Some(r)]

\* magmerge_gui.rs:152-166, 255-257: try_recv on the result receiver returns
\* Ok; both receivers are dropped; update returns
RecvResult ==
    /\ update_pc = "poll_result"
    /\ ResultQueued
    /\ LET c == Unwrap(app.result_rx)
           queued == Head(result_ch[c])
       IN  /\ app' = ApplyResult(app, queued.msg)
           /\ applied' = Append(applied, [from |-> queued.from,
                                          kind |-> "result",
                                          msg |-> queued.msg])
    /\ progress_ch' = IF app'.progress_rx = app.progress_rx THEN progress_ch
                       ELSE DropReceiver(progress_ch, app.progress_rx)
    /\ result_ch' = IF app'.result_rx = app.result_rx
                     THEN [result_ch EXCEPT ![Unwrap(app.result_rx)] = Tail(@)]
                     ELSE DropReceiver(result_ch, app.result_rx)
    /\ update_pc' = "idle"
    /\ UNCHANGED threads
    /\ UNCHANGED GuiOnly

\* magmerge_gui.rs:152-153, 255-257: there is no receiver, or try_recv
\* returns Err; update returns
NoResult ==
    /\ update_pc = "poll_result"
    /\ ~ResultQueued
    /\ update_pc' = "idle"
    /\ UNCHANGED <<app, threads, progress_ch, result_ch, applied>>
    /\ UNCHANGED GuiOnly

\* A call of update in which nothing is dropped, and the rest of any call.
UpdateStep ==
    \/ NoDrop
    \/ RecvProgress
    \/ ProgressEmpty
    \/ RecvResult
    \/ NoResult

GuiNext ==
    \/ \E f \in GuiFolders : Drop(f)
    \/ UpdateStep
    \/ \E w \in 1..MaxDrops : WorkerStep(w)

GuiSpec == Init /\ [][GuiNext]_vars

\* magmerge_gui.rs:255-257: a call of update runs to its end, and while
\* processing is set it asks for another call (ctx.request_repaint)
Repaint == UpdateStep /\ (update_pc # "idle" \/ app.processing)

\* The GUI keeps being updated while a run is in progress, and every thread
\* spawned keeps being scheduled (file I/O finishes).  Nothing makes the
\* user drop a folder.
GuiLiveSpec ==
    /\ Init
    /\ [][GuiNext]_vars
    /\ WF_vars(Repaint)
    /\ \A w \in 1..MaxDrops : WF_vars(WorkerStep(w))

\* A direct call of combine_group on a list of files; at pc = "returned" the
\* summary is the caller's.
GroupNext ==
    \/ \E files \in FileLists : CombineGroupCall("Bead", files)
    \/ GroupStep

GroupSpec == Init /\ [][GroupNext]_vars

(***************************************************************************)
(* combine_group on files whose bytes are fixed: line endings, blank       *)
(* lines and lines that start with '#'.                                    *)
(***************************************************************************)
\* What read_until returns for a line that ends with \n: blank lines (the
\* second is empty once trimmed), header lines (the second after a space,
\* and ending \r\n), and data lines with a carriage return before the \r\n
\* and inside the line.
TerminatedLines ==
    {<<" ", "\n">>, <<"\r", "\n">>,
     <<"#", "a", "\n">>, <<" ", "#", "b", "\r", "\n">>,
     <<"x", "\n">>, <<"y", "\r", "\r", "\n">>, <<"\r", "z", " ", "\n">>}

\* What read_until returns for the last line of a file that does not end
\* with \n.
UnterminatedLines == {<<"x">>, <<"x", "\r">>, <<"#", "a", "\r">>}

\* Sequences of at most n elements of S.
RECURSIVE SeqsUpTo(_, _)
SeqsUpTo(S, n) ==
    IF n = 0 THEN {<<>>}
    ELSE {<<>>} \cup {<<x>> \o t : x \in S, t \in SeqsUpTo(S, n - 1)}

\* The lines of a file: at most MaxReads, the last one terminated or not.
LineContents ==
    SeqsUpTo(TerminatedLines, MaxReads)
    \cup {Append(c, u) : c \in SeqsUpTo(TerminatedLines, MaxReads - 1),
                          u \in UnterminatedLines}

\* A folder of input files whose outputs can be written.
LineFolder(f) ==
    [entries |-> {[path |-> p, is_file |-> TRUE] : p \in DOMAIN f},
     listable |-> TRUE, files |-> f,
     create |-> NoWriteFailure.create, ok_writes |-> NoWriteFailure.ok_writes]

\* The file read before the file whose lines vary: one with a header line,
\* one with a data line, one that cannot be opened.
FirstFiles ==
    {[status |-> "eof", lines |-> <<<<"#", "a", "\n">>>>],
     [status |-> "eof", lines |-> <<<<"x", "\n">>>>],
     [status |-> "open_failed", lines |-> <<>>]}

\* One file of any content, read to its end or until a read fails, alone;
\* or read to its end after another file.
LineFolders ==
    {LineFolder([p \in {"Bead Positions 1.txt"} |->
                    [status |-> st, lines |-> c]]) :
         st \in {"eof", "read_failed"}, c \in LineContents}
    \cup {LineFolder([p \in {"Bead Positions 1.txt", "Bead Positions 2.txt"} |->
                         IF p = "Bead Positions 1.txt" THEN first
                         ELSE [status |-> "eof", lines |-> c]]) :
              first \in FirstFiles, c \in LineContents}

\* The files of the folder, as a caller lists them for combine_group.
LineFiles ==
    IF "Bead Positions 2.txt" \in DOMAIN Unwrap(folder).files
    THEN <<"Bead Positions 1.txt", "Bead Positions 2.txt">>
    ELSE <<"Bead Positions 1.txt">>

LineInit == Idle /\ folder \in {Some(f) : f \in LineFolders}

LineNext ==
    \/ CombineGroupCall("Bead", LineFiles)
    \/ GroupStep

LineSpec == LineInit /\ [][LineNext]_vars

(***************************************************************************)
(* What the group has read and what it should have made of it, computed    *)
(* from `consumed` alone.                                                  *)
(***************************************************************************)
InGroup == pc \in {"next_file", "read", "returned"}

Returned == pc = "returned"

NonBlank(lines) == SelectSeq(lines, LAMBDA l : ~is_whitespace_line(l))

\* The positions of the non-blank lines of a file that start with '#'.
HashLines(lines) ==
    {i \in 1..Len(lines) :
        ~is_whitespace_line(lines[i]) /\ starts_with_hash(lines[i])}

HasHeader(lines) == HashLines(lines) # {}

HeaderPos(lines) ==
    CHOOSE i \in HashLines(lines) : \A j \in HashLines(lines) : i <= j

\* The header line of a file: its first non-blank line that starts with '#'.
HeaderOf(lines) == lines[HeaderPos(lines)]

\* The data lines of a file: its non-blank lines but the header line.
DataOf(lines) ==
    IF HasHeader(lines)
    THEN NonBlank(SubSeq(lines, 1, HeaderPos(lines) - 1))
             \o NonBlank(SubSeq(lines, HeaderPos(lines) + 1, Len(lines)))
    ELSE NonBlank(lines)

RECURSIVE Flatten(_)
Flatten(seqs) ==
    IF seqs = <<>> THEN <<>> ELSE Head(seqs) \o Flatten(Tail(seqs))

\* The data lines read so far, files in list order, lines in file order.
AllData == Flatten([i \in 1..Len(consumed) |-> DataOf(consumed[i].lines)])

\* The files read so far that have a header line.
WithHeader == {i \in 1..Len(consumed) : HasHeader(consumed[i].lines)}

FirstWithHeader == CHOOSE i \in WithHeader : \A j \in WithHeader : i <= j

\* The header line of the first file, in list order, that has one.
FirstHeader == HeaderOf(consumed[FirstWithHeader].lines)

IsOutputError(e) == e.file = Some(cg.output_path)

OutputErrors == SelectSeq(cg.summary.errors, IsOutputError)

FileErrors == SelectSeq(cg.summary.errors, LAMBDA e : ~IsOutputError(e))

NoOutputError == OutputErrors = <<>>

LogLines == [i \in 1..Len(cg.log) |-> cg.log[i].line]

LogOfKind(kind) == SelectSeq(cg.log, LAMBDA w : w.kind = kind)

DataWritten == [i \in 1..Len(LogOfKind("data")) |-> LogOfKind("data")[i].line]

\* The lines of the output file the group created (none when it created none).
OutputLines == IF IsSome(cg.disk) THEN Unwrap(cg.disk) ELSE <<>>

IsPrefix(s, t) == Len(s) <= Len(t) /\ SubSeq(t, 1, Len(s)) = s

\* The notifications passed to on_progress, by kind.
CombineEvents == SelectSeq(events, LAMBDA e : e.kind = "Combine")

DiscoveryEvents == SelectSeq(events, LAMBDA e : e.kind = "Discovery")

(***************************************************************************)
(* Claims about combine_group, checked under GroupSpec.                    *)
(***************************************************************************)
CreateFailed ==
    \E i \in 1..Len(cg.summary.errors) :
        cg.summary.errors[i] =
            Error(Some(cg.output_path), "Failed to create output")

AnyNonBlank ==
    \E i \in 1..Len(consumed) : NonBlank(consumed[i].lines) # <<>>

AnyReadToEnd == \E i \in 1..Len(consumed) : consumed[i].status = "eof"

ExpectedOutput ==
    (IF WithHeader = {} THEN <<>> ELSE <<FirstHeader>>) \o AllData

\* C2: when no create or write failed and some file has a header line, the
\* canonical header (summary.header) is the header line of the first file in
\* list order that has one, it is the first line of the output, and header
\* resolution writes exactly one line, before every data line.
C2_FirstHeaderOnce ==
    (Returned /\ NoOutputError /\ WithHeader # {}) =>
        /\ cg.summary.header = Some(FirstHeader)
        /\ OutputLines # <<>>
        /\ OutputLines[1] = FirstHeader
        /\ OutputLines = LogLines
        /\ Len(LogOfKind("header")) = 1
        /\ cg.log[1].kind = "header"

\* C2 witness: two files were read to their end, both have a header line,
\* the headers differ, and the output starts with the first file's.
C2_Witness ==
    /\ Returned
    /\ cg.summary.errors = <<>>
    /\ Len(consumed) = 2
    /\ WithHeader = {1, 2}
    /\ HeaderOf(consumed[1].lines) # HeaderOf(consumed[2].lines)
    /\ OutputLines[1] = HeaderOf(consumed[1].lines)

\* C3: when no create or write failed, the data lines of the output are the
\* data lines of the files in list order, each file's in file order, and the
\* output is the canonical header (if any) followed by them.
C3_DataInOrder ==
    (Returned /\ NoOutputError) =>
        /\ DataWritten = AllData
        /\ OutputLines = ExpectedOutput

\* C3 witness: the first file has two different data lines and no header, the
\* second has a header; the output is the header, then the two lines.
C3_Witness ==
    /\ Returned
    /\ cg.summary.errors = <<>>
    /\ Len(consumed) = 2
    /\ WithHeader = {2}
    /\ Len(DataOf(consumed[1].lines)) = 2
    /\ DataOf(consumed[1].lines)[1] # DataOf(consumed[1].lines)[2]
    /\ OutputLines = <<FirstHeader>> \o DataOf(consumed[1].lines)

\* The files read so far whose header line differs from the canonical header.
Mismatching ==
    SelectSeq([i \in 1..Len(consumed) |-> i],
              LAMBDA i : /\ HasHeader(consumed[i].lines)
                         /\ HeaderOf(consumed[i].lines) # FirstHeader)

ExpectedWarnings ==
    IF IsNone(cg.summary.header) THEN <<>>
    ELSE [k \in 1..Len(Mismatching) |->
             Warning(consumed[Mismatching[k]].path, "Header mismatch")]

\* C4: at every point of the group, the warnings are one "Header mismatch"
\* per file whose header line differs from the canonical header, tagged with
\* that file's path, in file order; the canonical header stays the first
\* header read; and when no create or write failed every file of the list
\* was processed and all data lines are in the output.
C4_MismatchWarns ==
    InGroup =>
        /\ cg.summary.warnings = ExpectedWarnings
        /\ IsSome(cg.summary.header) => cg.summary.header = Some(FirstHeader)
        /\ (Returned /\ NoOutputError) =>
               /\ Len(consumed) = Len(cg.files)
               /\ DataWritten = AllData

\* C4 witness: the second file's header differs from the first's, one warning
\* names the second file, and the second file's data line is in the output.
C4_Witness ==
    /\ Returned
    /\ cg.summary.errors = <<>>
    /\ Len(consumed) = 2
    /\ WithHeader = {1, 2}
    /\ cg.summary.warnings = <<Warning(cg.files[2], "Header mismatch")>>
    /\ cg.summary.header = Some(HeaderOf(consumed[1].lines))
    /\ DataOf(consumed[2].lines) # <<>>
    /\ OutputLines = <<FirstHeader>> \o DataOf(consumed[2].lines)

\* C5: at most one error is tagged with the output path; once it is recorded
\* the group has returned and it is the last error of the summary.  After a
\* failed create there is no output file; after a failed append the output
\* holds only the lines written before the failure, a proper prefix of what
\* was to be written.  No file after the one being read was opened.
C5_WriteFailureAborts ==
    InGroup =>
        /\ Len(OutputErrors) <= 1
        /\ Len(OutputErrors) = 1 =>
               /\ Returned
               /\ cg.summary.errors[Len(cg.summary.errors)] = OutputErrors[1]
               /\ OutputLines = LogLines
               /\ IsPrefix(OutputLines, ExpectedOutput)
               /\ IF CreateFailed
                  THEN outputs[cg.file_type] = None
                  ELSE /\ OutputErrors[1].message = "Failed to write output"
                       /\ OutputLines # ExpectedOutput
                       /\ outputs[cg.file_type] = Some(OutputLines)
               /\ consumed[Len(consumed)].status = "reading"
                      => Len(consumed) = idx + 1

\* C5 witness: appending a line failed while the first of two files was being
\* read, after the header was written; the second file was never opened.
C5_Witness ==
    /\ Returned
    /\ Len(cg.files) = 2
    /\ Len(consumed) = 1
    /\ consumed[1].status = "reading"
    /\ cg.summary.errors =
           <<Error(Some(cg.output_path), "Failed to write output")>>
    /\ Len(OutputLines) = 1

ExpectedFileErrors ==
    LET failed == SelectSeq([i \in 1..Len(consumed) |-> i],
                      LAMBDA i : consumed[i].status \in {"open_failed", "read_failed"})
    IN  [k \in 1..Len(failed) |->
            Error(Some(consumed[failed[k]].path), "Failed to read file")]

\* C6: the errors tagged with input files are one per file that failed to
\* open or failed while being read, in file order; the file being read is
\* the only one not finished; and a group that returns without an output
\* error has processed every file of its list.
C6_ReadFailureSkipsFile ==
    InGroup =>
        /\ FileErrors = ExpectedFileErrors
        /\ \A i \in 1..Len(consumed) :
               consumed[i].status = "reading"
                   => i = Len(consumed) /\ (pc = "read" \/ ~NoOutputError)
        /\ consumed = <<>> \/ consumed[Len(consumed)].path = cg.files[Len(consumed)]
        /\ (Returned /\ NoOutputError) => Len(consumed) = Len(cg.files)

\* C6 witness: the first file failed part-way after a data line, the second
\* file was read to its end, and both files' lines are in the output.
C6_Witness ==
    /\ Returned
    /\ Len(consumed) = 2
    /\ consumed[1].status = "read_failed"
    /\ DataOf(consumed[1].lines) # <<>>
    /\ consumed[2].status = "eof"
    /\ DataOf(consumed[2].lines) # <<>>
    /\ cg.summary.errors = <<Error(Some(cg.files[1]), "Failed to read file")>>
    /\ OutputLines = AllData

\* C8: at every point of the group, data_lines is the number of data lines
\* written to the output: the header line is not counted, nor is a line
\* whose write failed.
C8_DataLinesCount ==
    InGroup =>
        /\ cg.summary.data_lines = Len(LogOfKind("data"))
        /\ cg.summary.data_lines
               = Len(OutputLines) - (IF Len(LogOfKind("header")) = 1 THEN 1 ELSE 0)

\* C8 witness: a header and a data line were written, then the write of a
\* second data line failed.
C8_Witness ==
    /\ Returned
    /\ ~NoOutputError
    /\ Len(AllData) = 2
    /\ Len(OutputLines) = 2
    /\ Len(LogOfKind("header")) = 1
    /\ cg.summary.data_lines = 1

\* C9 as stated: when no file has had a header line, the output exists as
\* soon as a data line has been read.
C9_CreatedAsSoonAsData ==
    (InGroup /\ NoOutputError /\ WithHeader = {} /\ AllData # <<>>) =>
        cg.writer

\* C9, amended: as long as no file has had a header line nothing is written
\* and no output is created while files are read; the output is created
\* after the last file was processed.  In the returned summary of such a
\* group, when no create or write failed, header is absent, no header line
\* was written, the output holds all data lines in file order, and the
\* output exists if there is a data line.
C9_HeaderlessFlushedAtEnd ==
    (InGroup /\ WithHeader = {}) =>
        /\ ~Returned =>
               /\ ~cg.writer
               /\ outputs[cg.file_type] = None
               /\ cg.buffered_before_header = AllData
        /\ IsNone(cg.summary.header)
        /\ LogOfKind("header") = <<>>
        /\ (Returned /\ NoOutputError) =>
               /\ OutputLines = AllData
               /\ AllData # <<>> => outputs[cg.file_type] = Some(AllData)

\* C9 witness: two files without header, a data line in each, both in the
\* output in file order.
C9_Witness ==
    /\ Returned
    /\ cg.summary.errors = <<>>
    /\ Len(consumed) = 2
    /\ WithHeader = {}
    /\ DataOf(consumed[1].lines) # <<>>
    /\ DataOf(consumed[2].lines) # <<>>
    /\ DataOf(consumed[1].lines) # DataOf(consumed[2].lines)
    /\ outputs[cg.file_type] = Some(AllData)

AllOpensFailed ==
    /\ Len(consumed) = Len(cg.files)
    /\ \A i \in 1..Len(consumed) : consumed[i].status = "open_failed"

\* C10: when every file of a non-empty list fails to open, the summary has
\* output_path = None, data_lines = 0, no header, one error per file in list
\* order, and no output file exists.
C10_AllUnreadable ==
    (Returned /\ cg.files # <<>> /\ AllOpensFailed) =>
        /\ cg.summary.output_path = None
        /\ cg.summary.data_lines = 0
        /\ cg.summary.header = None
        /\ cg.summary.warnings = <<>>
        /\ cg.summary.errors =
               [i \in 1..Len(cg.files) |->
                   Error(Some(cg.files[i]), "Failed to read file")]
        /\ outputs[cg.file_type] = None

\* C10 witness: a list of two files, neither could be opened.
C10_Witness ==
    /\ Returned
    /\ Len(cg.files) = 2
    /\ AllOpensFailed
    /\ Len(cg.summary.errors) = 2

(***************************************************************************)
(* Claims about combine_folder, checked under Spec.                        *)
(***************************************************************************)
HasErrorOn(summary, path) ==
    \E i \in 1..Len(summary.errors) : summary.errors[i].file = Some(path)

\* C7: when combine_folder returns after a successful scan that found Motor
\* files, the report holds the Motor group's summary whatever happened to
\* the Bead group: the Motor group was run on the discovered Motor files to
\* its own end, and none of its errors is the Bead group's.
C7_MotorRunsAfterBeadAbort ==
    (pc = "done" /\ mode = "folder" /\ discovered.motor_files # <<>>) =>
        /\ IsSome(report.motor)
        /\ Unwrap(report.motor) = cg.summary
        /\ cg.file_type = "Motor"
        /\ cg.files = discovered.motor_files
        /\ cg.summary.input_files = report.motor_files
        /\ ~HasErrorOn(cg.summary, output_filename("Bead"))
        /\ NoOutputError => Len(consumed) = Len(discovered.motor_files)
        /\ discovered.bead_files # <<>> => IsSome(report.bead)

\* C7 witness: the Bead group was aborted by a failed write to its output,
\* and the Motor group wrote a data line to its own output without error.
C7_Witness ==
    /\ pc = "done"
    /\ IsSome(report.bead)
    /\ Unwrap(report.bead).errors =
           <<Error(Some(output_filename("Bead")), "Failed to write output")>>
    /\ IsSome(report.motor)
    /\ Unwrap(report.motor).errors = <<>>
    /\ Unwrap(report.motor).output_path = Some(output_filename("Motor"))
    /\ Unwrap(report.motor).data_lines = 1
    /\ outputs["Motor"] = Some(AllData)

(***************************************************************************)
(* Claims about discovery, checked under DiscoverSpec: the folder's        *)
(* entries are fixed, read_dir yields them in any order.                   *)
(***************************************************************************)
\* discover_files has returned Ok and combine_folder has taken the counts.
Discovered == pc = "call_bead" /\ IsSome(folder)

Count(path, list) == Cardinality({i \in 1..Len(list) : list[i] = path})

\* The conditions of C11 on a directory entry, on the bytes of its name.
EligibleFor(entry, prefix) ==
    /\ entry.is_file
    /\ Extension(FileName(entry.path)) = Some(<<"t", "x", "t">>)
    /\ StartsWith(FileName(entry.path), prefix)
    /\ FileName(entry.path) \notin {BEAD_OUTPUT, MOTOR_OUTPUT}

EligibleEntries ==
    {e \in Unwrap(folder).entries :
        EligibleFor(e, BEAD_PREFIX) \/ EligibleFor(e, MOTOR_PREFIX)}

\* C11 as stated: an entry is in the Bead (Motor) list if and only if it is a
\* regular file with extension "txt" whose name starts with "Bead Positions"
\* ("Motor Positions") and is not a reserved output name; it is there once,
\* and in one list only; bead_files + motor_files is the number of eligible
\* entries.
C11_ListedIffEligible ==
    Discovered =>
        /\ \A e \in Unwrap(folder).entries :
               /\ Count(e.path, discovered.bead_files)
                      = (IF EligibleFor(e, BEAD_PREFIX) THEN 1 ELSE 0)
               /\ Count(e.path, discovered.motor_files)
                      = (IF EligibleFor(e, MOTOR_PREFIX) THEN 1 ELSE 0)
               /\ Count(e.path, discovered.bead_files)
                      + Count(e.path, discovered.motor_files) <= 1
        /\ report.bead_files + report.motor_files = Cardinality(EligibleEntries)

\* C11 for names that are valid UTF-8: the equivalence of C11 holds for every
\* entry whose name to_str accepts, an entry whose name it rejects is in no
\* list, the lists hold nothing but entries of the folder, and the counts of
\* the report are the lengths of the lists.
C11_ListedIffEligibleUtf8 ==
    Discovered =>
        /\ \A e \in Unwrap(folder).entries :
               /\ IsSome(to_str(FileName(e.path))) =>
                      /\ Count(e.path, discovered.bead_files)
                             = (IF EligibleFor(e, BEAD_PREFIX) THEN 1 ELSE 0)
                      /\ Count(e.path, discovered.motor_files)
                             = (IF EligibleFor(e, MOTOR_PREFIX) THEN 1 ELSE 0)
               /\ IsNone(to_str(FileName(e.path))) =>
                      /\ Count(e.path, discovered.bead_files) = 0
                      /\ Count(e.path, discovered.motor_files) = 0
        /\ \A i \in 1..Len(discovered.bead_files) :
               \E e \in Unwrap(folder).entries : e.path = discovered.bead_files[i]
        /\ \A i \in 1..Len(discovered.motor_files) :
               \E e \in Unwrap(folder).entries : e.path = discovered.motor_files[i]
        /\ report.bead_files = Len(discovered.bead_files)
        /\ report.motor_files = Len(discovered.motor_files)
        /\ report.bead_files + report.motor_files
               = Cardinality({e \in EligibleEntries :
                                 IsSome(to_str(FileName(e.path)))})

\* C11 witness: the folder holds a Bead input file and the output of an
\* earlier run; the input file alone is listed.
C11_Witness ==
    /\ Discovered
    /\ \E e \in Unwrap(folder).entries : e.path = "Bead Positions Combined.txt"
    /\ discovered.bead_files = <<"Bead Positions 1.txt">>
    /\ report.bead_files + report.motor_files = 1

\* The list is in strictly ascending order of the bytes of the file names.
Ascending(list) ==
    \A i, j \in 1..Len(list) :
        i < j => StrLess(FileName(list[i]), FileName(list[j]))

\* C12: the two lists discover_files returns are the lists it returns for
\* every order in which read_dir can enumerate the entries of the folder,
\* and each is in ascending order of the file names, compared byte by byte.
C12_SameListsAnyOrder ==
    Discovered =>
        /\ \A listing \in ReadDir : discover_files(listing) = discovered
        /\ Ascending(discovered.bead_files)
        /\ Ascending(discovered.motor_files)

\* C12 witness: two Bead files whose names differ in a letter's case, the
\* upper-case one first.
C12_Witness ==
    /\ Discovered
    /\ discovered.bead_files = <<"Bead Positions B.txt", "Bead Positions a.txt">>
    /\ Cardinality(ReadDir) = 2

\* The entries of the folder that discover_files classifies.
ClassifiedEntries ==
    {e \in EligibleEntries : IsSome(to_str(FileName(e.path)))}

\* The counts of notification k exceed those of the notification before it
\* (or zero, zero) by one in one category and by nothing in the other.
OneMore(k) ==
    LET before == IF k = 1
                  THEN [bead_files |-> 0, motor_files |-> 0]
                  ELSE DiscoveryEvents[k - 1]
        now == DiscoveryEvents[k]
    IN  \/ /\ now.bead_files = before.bead_files + 1
           /\ now.motor_files = before.motor_files
        \/ /\ now.bead_files = before.bead_files
           /\ now.motor_files = before.motor_files + 1

\* C19: the Discovery notifications of a scan each exceed the one before by
\* exactly 1 in exactly one category, the first being (1,0) or (0,1); there
\* is none for an ignored entry, so they are never more than the classified
\* entries of the folder; and when the scan succeeds there is one per
\* classified entry and the last carries the report's bead_files and
\* motor_files.
C19_DiscoveryCounts ==
    (IsSome(folder) /\ pc # "idle") =>
        /\ \A k \in 1..Len(DiscoveryEvents) : OneMore(k)
        /\ Len(DiscoveryEvents) <= Cardinality(ClassifiedEntries)
        /\ Discovered =>
               /\ Len(DiscoveryEvents) = Cardinality(ClassifiedEntries)
               /\ Len(DiscoveryEvents) = report.bead_files + report.motor_files
               /\ DiscoveryEvents # <<>> =>
                      /\ DiscoveryEvents[Len(DiscoveryEvents)].bead_files
                             = report.bead_files
                      /\ DiscoveryEvents[Len(DiscoveryEvents)].motor_files
                             = report.motor_files

\* C19 witness: a folder with a Motor file and an unrelated file: one
\* notification, (0,1).
C19_Witness ==
    /\ Discovered
    /\ Cardinality(Unwrap(folder).entries) = 2
    /\ \E e \in Unwrap(folder).entries : e.path = "Notes.txt"
    /\ events = <<[kind |-> "Discovery", bead_files |-> 0, motor_files |-> 1]>>
    /\ report.motor_files = 1

(***************************************************************************)
(* Claims about two runs on the same folder, checked under RerunSpec.      *)
(***************************************************************************)
SecondRun == IsSome(prior)

Listed(path) ==
    \/ \E i \in 1..Len(discovered.bead_files) : discovered.bead_files[i] = path
    \/ \E i \in 1..Len(discovered.motor_files) : discovered.motor_files[i] = path

\* C13: when combine_folder is run a second time on a folder whose input
\* files, and their failures, are those of the first run, the report it
\* returns is the report of the first run (counts, summaries with
\* data_lines, header, warnings and errors, folder errors), the output files
\* hold what they held after the first run, and no output file is among the
\* files the second run discovered.
C13_SameReportTwice ==
    SecondRun =>
        /\ \A t \in FileType : ~Listed(output_filename(t))
        /\ pc = "done" =>
               /\ report = Unwrap(prior).report
               /\ outputs = Unwrap(prior).outputs

\* C13 witness: the folder held two Bead files and no output; the first run
\* wrote a Bead output with a data line, which was in the folder when the
\* second run listed it, and the second run is over.
C13_Witness ==
    /\ SecondRun
    /\ pc = "done"
    /\ Cardinality(Unwrap(folder).entries) = 2
    /\ report.bead_files = 2
    /\ IsSome(report.bead)
    /\ Unwrap(report.bead).data_lines > 0
    /\ Unwrap(report.bead).warnings = <<>>
    /\ Unwrap(prior).outputs["Bead"] # None
    /\ outputs["Bead"] # None

\* Every run on a fixed folder goes on until it is over.
RerunGoesOn == (pc = "done" /\ SecondRun) \/ ENABLED RerunNext

Unlistable == IsSome(folder) /\ ~Unwrap(folder).listable

\* C14: when the folder cannot be listed (read_dir fails, or an entry does
\* while the entries are enumerated), combine_folder returns at once: the
\* report has bead_files = 0, motor_files = 0, no group summary and one
\* error, whose file is absent; combine_group was not entered, no Combine
\* notification was emitted and there is no output file.
C14_ScanFailureReport ==
    (Unlistable /\ pc # "idle") =>
        /\ pc = "done"
        /\ report = [NewReport EXCEPT
                         !.errors = <<Error(None, "Failed to scan folder")>>]
        /\ cg = NoGroup
        /\ processed_files = 0
        /\ CombineEvents = <<>>
        /\ \A t \in FileType : outputs[t] = None

\* C14 witness: the listing failed after a Bead file had been classified.
C14_Witness ==
    /\ Unlistable
    /\ pc = "done"
    /\ Len(report.errors) = 1
    /\ events = <<[kind |-> "Discovery", bead_files |-> 1, motor_files |-> 0]>>

(***************************************************************************)
(* Claims about the report and the notifications of combine_folder,        *)
(* checked under Spec.                                                     *)
(***************************************************************************)
\* combine_folder has returned its report.
FolderDone == pc = "done" /\ mode = "folder"

SummaryOf(t) == IF t = "Bead" THEN report.bead ELSE report.motor

CountOf(t) == IF t = "Bead" THEN report.bead_files ELSE report.motor_files

\* C15: in the report combine_folder returns, a category's summary is
\* present if and only if the category's file count is not zero, and then
\* its input_files is that count; a category without files was not run (no
\* Combine notification names it); and when both counts are zero and the
\* folder could be listed, both summaries are absent and the report holds
\* no error at all.
C15_SummaryIffFiles ==
    FolderDone =>
        /\ \A t \in FileType :
               /\ IsSome(SummaryOf(t)) <=> CountOf(t) > 0
               /\ IsSome(SummaryOf(t)) =>
                      /\ Unwrap(SummaryOf(t)).input_files = CountOf(t)
                      /\ Unwrap(SummaryOf(t)).file_type = t
               /\ CountOf(t) = 0 =>
                      \A i \in 1..Len(CombineEvents) :
                          CombineEvents[i].file_type # t
        /\ (report.bead_files = 0 /\ report.motor_files = 0
                /\ report.errors = <<>>) =>
               /\ report = NewReport
               /\ collect_errors(report) = <<>>
               /\ cg = NoGroup

\* C15 witness: the folder held one Motor file and no Bead file; the report
\* has the Motor summary only.
C15_Witness ==
    /\ FolderDone
    /\ report.bead_files = 0
    /\ report.motor_files = 1
    /\ report.bead = None
    /\ IsSome(report.motor)
    /\ Unwrap(report.motor).input_files = 1

\* The files named by the Combine notifications of a category, in order.
CombinedFiles(t) ==
    LET of_t == SelectSeq(CombineEvents, LAMBDA e : e.file_type = t)
    IN  [i \in 1..Len(of_t) |-> of_t[i].current_file]

\* The category's group is being combined, or has just returned.
Combining(t) == InGroup /\ cg.file_type = t

\* The category's group has not been entered yet.
NotStarted(t) ==
    \/ pc \in {"idle", "call_bead"}
    \/ t = "Motor" /\ (pc = "call_motor" \/ Combining("Bead"))

\* The category's summary is in the report and has no error on its output.
StoredWhole(t) ==
    /\ IsSome(SummaryOf(t))
    /\ ~HasErrorOn(Unwrap(SummaryOf(t)), output_filename(t))

\* C16: at every point of a run of combine_folder_with_progress the
\* notifications emitted so far are Discovery notifications followed by
\* Combine notifications; no Bead Combine notification follows a Motor one;
\* the files named by a category's Combine notifications are the first
\* files of the category's discovered list, in the list's sorted order, one
\* for each file combine_group has finished with.
C16_NotificationOrder ==
    mode = "folder" =>
        /\ events = DiscoveryEvents \o CombineEvents
        /\ \A i, j \in 1..Len(CombineEvents) :
               (i < j /\ CombineEvents[i].file_type = "Motor")
                   => CombineEvents[j].file_type = "Motor"
        /\ \A t \in FileType :
               /\ IsPrefix(CombinedFiles(t), FilesOf(t))
               /\ Ascending(CombinedFiles(t))
               /\ Combining(t) => Len(CombinedFiles(t)) = idx
               /\ NotStarted(t) => CombinedFiles(t) = <<>>
               /\ StoredWhole(t) => CombinedFiles(t) = FilesOf(t)

\* C16 witness: two Discovery notifications, the Motor file found first,
\* then the Combine notification of the Bead file, then the Motor file's.
C16_Witness ==
    /\ FolderDone
    /\ Len(events) = 4
    /\ events[1] = [kind |-> "Discovery", bead_files |-> 0, motor_files |-> 1]
    /\ events[2].kind = "Discovery"
    /\ events[3].kind = "Combine" /\ events[3].file_type = "Bead"
    /\ events[4].kind = "Combine" /\ events[4].file_type = "Motor"
    /\ events[4].current_file = "Motor Positions 1.txt"

\* C17: every Combine notification carries the same total, the sum of the
\* two discovered counts, which are those of the report; the k-th Combine
\* notification of the run carries processed = k, whatever its category;
\* processed never exceeds the total.
C17_RunningCount ==
    mode = "folder" =>
        /\ processed_files = Len(CombineEvents)
        /\ \A k \in 1..Len(CombineEvents) :
               /\ CombineEvents[k].total_files
                      = Len(discovered.bead_files) + Len(discovered.motor_files)
               /\ CombineEvents[k].total_files
                      = report.bead_files + report.motor_files
               /\ CombineEvents[k].processed_files = k
               /\ CombineEvents[k].processed_files <= CombineEvents[k].total_files

\* C17 witness: a Bead file and a Motor file; the Motor file's notification
\* is the second of the run and carries 2 of 2.
C17_Witness ==
    /\ FolderDone
    /\ Len(CombineEvents) = 2
    /\ CombineEvents[1].file_type = "Bead"
    /\ CombineEvents[1].processed_files = 1
    /\ CombineEvents[1].total_files = 2
    /\ CombineEvents[2].file_type = "Motor"
    /\ CombineEvents[2].processed_files = 2
    /\ CombineEvents[2].total_files = 2

\* The files of the group combine_group has finished with: read to the end,
\* not opened, or given up on a read error.
Finished ==
    SelectSeq(consumed, LAMBDA c : c.status # "reading")

NoOutputFailure ==
    \A t \in FileType :
        IsSome(SummaryOf(t)) =>
            ~HasErrorOn(Unwrap(SummaryOf(t)), output_filename(t))

\* C18: while a group is combined, the Combine notifications of its category
\* are one per file finished so far, whether it was read to its end, could
\* not be opened or failed while being read, each naming that file; and
\* when the run returns without a failure on an output file, the number of
\* Combine notifications is the total and the last one carries
\* processed = total.
C18_OneCombinePerFile ==
    mode = "folder" =>
        /\ InGroup =>
               /\ Len(CombinedFiles(cg.file_type)) = Len(Finished)
               /\ \A i \in 1..Len(Finished) :
                      CombinedFiles(cg.file_type)[i] = Finished[i].path
        /\ (FolderDone /\ NoOutputFailure /\ report.errors = <<>>) =>
               /\ Len(CombineEvents) = report.bead_files + report.motor_files
               /\ CombineEvents # <<>> =>
                      CombineEvents[Len(CombineEvents)].processed_files
                          = CombineEvents[Len(CombineEvents)].total_files

\* C18 witness: of two Bead files the first could not be opened and the
\* second failed while being read; there are two Combine notifications, the
\* last with 2 of 2.
C18_Witness ==
    /\ FolderDone
    /\ report.bead_files = 2
    /\ Len(consumed) = 2
    /\ consumed[1].status = "open_failed"
    /\ consumed[2].status = "read_failed"
    /\ Len(CombineEvents) = 2
    /\ CombineEvents[2].processed_files = 2
    /\ CombineEvents[2].total_files = 2

(***************************************************************************)
(* Claims about the lines of a file, checked under LineSpec: the bytes of  *)
(* every file are fixed, and what was read of them is in `consumed`.       *)
(***************************************************************************)
\* What read_until returned for the lines read so far of the i-th file.
RawsRead(i) ==
    SubSeq(FileAt(consumed[i].path).lines, 1, Len(consumed[i].lines))

\* `line` is `raw` without the longest of the `endings` that raw ends with.
Stripped(raw, line, endings) ==
    \E e \in endings :
        /\ raw = line \o e
        /\ \A longer \in endings : Len(longer) > Len(e) => ~EndsWith(raw, longer)

Prefixes(raw) == {SubSeq(raw, 1, n) : n \in 0..Len(raw)}

\* C24 as stated: a line is what read_until returned without its trailing \n
\* and without one \r immediately before that \n.
StatedEndings == {<<>>, <<"\n">>, <<"\r", "\n">>}

StatedLine(raw) ==
    CHOOSE line \in Prefixes(raw) : Stripped(raw, line, StatedEndings)

\* As the code does it: a final line without \n also loses one trailing \r.
TrimmedEndings == StatedEndings \cup {<<"\r">>}

TrimmedLine(raw) ==
    CHOOSE line \in Prefixes(raw) : Stripped(raw, line, TrimmedEndings)

\* The bytes of the output file: write_line writes the line, then "\n".
OutputBytes == Flatten(AsRead(OutputLines))

\* The bytes the output must hold when the lines of the files read are
\* Line(raw): the first header line, then every data line, each followed by
\* one "\n".
ExpectedBytes(Line(_)) ==
    LET lines(i) == [k \in 1..Len(RawsRead(i)) |-> Line(RawsRead(i)[k])]
        with_header == {i \in 1..Len(consumed) : HasHeader(lines(i))}
        first == CHOOSE i \in with_header : \A j \in with_header : i <= j
        header == IF with_header = {} THEN <<>> ELSE <<HeaderOf(lines(first))>>
        data == Flatten([i \in 1..Len(consumed) |-> DataOf(lines(i))])
    IN  Flatten(AsRead(header \o data))

\* The bytes split after every "\n", as read_until splits them.
RECURSIVE SplitAtNewline(_)
SplitAtNewline(bytes) ==
    IF bytes = <<>> THEN <<>>
    ELSE LET ends == {i \in 1..Len(bytes) : bytes[i] = "\n"}
             cut == IF ends = {} THEN Len(bytes)
                    ELSE CHOOSE i \in ends : \A j \in ends : i <= j
         IN  <<SubSeq(bytes, 1, cut)>>
                 \o SplitAtNewline(SubSeq(bytes, cut + 1, Len(bytes)))

\* C24 as stated: every line read is what read_until returned without its
\* trailing \n and the \r before it, and nothing else is removed, so that a
\* \r at the end of a final line without \n is kept; the output holds these
\* lines, each followed by one "\n".
C24_OnlyNewlineTrimmed ==
    /\ InGroup =>
           \A i \in 1..Len(consumed) : \A k \in 1..Len(consumed[i].lines) :
               consumed[i].lines[k] = StatedLine(RawsRead(i)[k])
    /\ (Returned /\ NoOutputError) => OutputBytes = ExpectedBytes(StatedLine)

\* C24, amended: every line read is what read_until returned without its
\* trailing \n and one \r before it or, on a final line without a \n,
\* without one trailing \r; no other byte is removed or changed.  The
\* output holds the first header line and the data lines byte for byte,
\* each followed by exactly one "\n": read again, the output splits into
\* as many lines as were written, each a written line and its "\n".
C24_LineEndTrimmed ==
    /\ InGroup =>
           \A i \in 1..Len(consumed) : \A k \in 1..Len(consumed[i].lines) :
               consumed[i].lines[k] = TrimmedLine(RawsRead(i)[k])
    /\ (Returned /\ NoOutputError) =>
           /\ OutputBytes = ExpectedBytes(TrimmedLine)
           /\ SplitAtNewline(OutputBytes) = AsRead(OutputLines)
           /\ \A i \in 1..Len(OutputLines) : \A k \in 1..Len(OutputLines[i]) :
                  OutputLines[i][k] # "\n"

\* C24 witness: a file of two data lines, the first with a \r inside and a
\* space at its end, the second ending with \r and no \n; the output holds
\* the first as it was and the second without its \r.
C24_Witness ==
    /\ Returned
    /\ Len(consumed) = 1
    /\ RawsRead(1) = <<<<"\r", "z", " ", "\n">>, <<"x", "\r">>>>
    /\ OutputLines = <<<<"\r", "z", " ">>, <<"x">>>>
    /\ OutputBytes = <<"\r", "z", " ", "\n", "x", "\n">>

\* The line read_until returned holds nothing but whitespace bytes.
BlankRaw(raw) == \A k \in 1..Len(raw) : raw[k] \in {" ", "\t", "\n", "\f", "\r"}

\* The lines read so far of the i-th file that are not blank.
SolidRaws(i) == SelectSeq(RawsRead(i), LAMBDA raw : ~BlankRaw(raw))

RECURSIVE Sum(_)
Sum(seq) == IF seq = <<>> THEN 0 ELSE Head(seq) + Sum(Tail(seq))

\* A sequence of lines holds no blank line.
NoneBlank(lines) ==
    \A k \in 1..Len(lines) : \E j \in 1..Len(lines[k]) :
        lines[k][j] \notin {" ", "\t", "\n", "\f", "\r"}

\* C25: a blank line is never written to the output, never buffered and
\* never taken as a header (of the file or of the group), and it is never
\* counted: every non-blank line read so far is a file's header line, a
\* buffered line or a counted data line, and nothing else is.  A file that
\* holds only blank lines and one data line, combined alone, gives
\* data_lines = 1, no header and an output of that one line.
C25_BlankSkipped ==
    InGroup =>
        /\ NoneBlank(OutputLines)
        /\ NoneBlank(cg.buffered_before_header)
        /\ NoneBlank(file_header)
        /\ NoneBlank(cg.header_ref)
        /\ NoneBlank(cg.summary.header)
        /\ NoOutputError =>
               cg.summary.data_lines + Len(cg.buffered_before_header)
                       + Cardinality(WithHeader)
                   = Sum([i \in 1..Len(consumed) |-> Len(SolidRaws(i))])
        /\ (Returned /\ Len(cg.files) = 1 /\ consumed[1].status = "eof"
                /\ Len(SolidRaws(1)) = 1
                /\ ~starts_with_hash(SolidRaws(1)[1])) =>
               /\ cg.summary.data_lines = 1
               /\ cg.summary.header = None
               /\ OutputLines = <<TrimmedLine(SolidRaws(1)[1])>>

\* C25 witness: a file of a blank line, a data line and a line that is empty
\* once its \r\n is removed; the output is the data line.
C25_Witness ==
    /\ Returned
    /\ Len(cg.files) = 1
    /\ RawsRead(1) = <<<<" ", "\n">>, <<"x", "\n">>, <<"\r", "\n">>>>
    /\ cg.summary.data_lines = 1
    /\ cg.summary.header = None
    /\ OutputLines = <<<<"x">>>>

\* The first non-whitespace byte of the line is '#'.
HashRaw(raw) ==
    \E k \in 1..Len(raw) :
        /\ raw[k] = "#"
        /\ \A j \in 1..(k - 1) : raw[j] \in {" ", "\t", "\n", "\f", "\r"}

\* The positions, among the lines read so far of the i-th file, of the lines
\* that start with '#', and the first of them.
HashRaws(i) == {k \in 1..Len(RawsRead(i)) : HashRaw(RawsRead(i)[k])}

FirstHash(i) == CHOOSE k \in HashRaws(i) : \A j \in HashRaws(i) : k <= j

\* The header line of the i-th file: its first line that starts with '#'.
HeaderRaw(i) == TrimmedLine(RawsRead(i)[FirstHash(i)])

\* The data lines of the i-th file: its non-blank lines but that one, the
\* later lines that start with '#' among them.
DataRaws(i) ==
    LET at == SelectSeq([k \in 1..Len(RawsRead(i)) |-> k],
                  LAMBDA k : /\ ~BlankRaw(RawsRead(i)[k])
                             /\ (HashRaws(i) = {} \/ k # FirstHash(i)))
    IN  [n \in 1..Len(at) |-> TrimmedLine(RawsRead(i)[at[n]])]

\* The files read so far that have a line starting with '#'.
Hashed == {i \in 1..Len(consumed) : HashRaws(i) # {}}

WarningsOn(path) ==
    Cardinality({n \in 1..Len(cg.summary.warnings) :
                    cg.summary.warnings[n].file = path})

\* C26: in the file being read, the header is its first line that starts
\* with '#' (after leading whitespace), wherever that line is, also after
\* data lines, and there is none before such a line is read.  Every other
\* non-blank line of a file is a data line, a later line starting with '#'
\* included: the data lines written or buffered are these, in order, and
\* data_lines counts those written.  A file has at most one warning: one if
\* its header line differs from the header line of the first file that has
\* one, none otherwise, however many of its lines start with '#'.
C26_OneHeaderPerFile ==
    InGroup =>
        /\ pc = "read" =>
               file_header = IF HashRaws(Len(consumed)) = {} THEN None
                             ELSE Some(HeaderRaw(Len(consumed)))
        /\ DataWritten \o cg.buffered_before_header
               = Flatten([i \in 1..Len(consumed) |-> DataRaws(i)])
        /\ cg.summary.data_lines = Len(DataWritten)
        /\ Len(LogOfKind("header")) = (IF Hashed = {} THEN 0 ELSE 1)
        /\ \A i \in 1..Len(consumed) :
               WarningsOn(consumed[i].path)
                   = (IF /\ i \in Hashed
                         /\ HeaderRaw(i)
                                # HeaderRaw(CHOOSE f \in Hashed : \A j \in Hashed : f <= j)
                      THEN 1 ELSE 0)

\* C26 witness: a file of a data line, a line "#a" and a line " #b": "#a" is
\* the header, " #b" is written as the second data line, without a warning.
C26_Witness ==
    /\ Returned
    /\ Len(cg.files) = 1
    /\ RawsRead(1) = <<<<"x", "\n">>, <<"#", "a", "\n">>,
                       <<" ", "#", "b", "\r", "\n">>>>
    /\ cg.summary.header = Some(<<"#", "a">>)
    /\ OutputLines = <<<<"#", "a">>, <<"x">>, <<" ", "#", "b">>>>
    /\ cg.summary.data_lines = 2
    /\ cg.summary.warnings = <<>>

(***************************************************************************)
(* Claims about run_cli, checked under CliSpec.                            *)
(***************************************************************************)
CliReturned == cli.pc = "returned"

\* The argument count is not 2, or the argument is not a directory.
BadArgs == Len(cli.args) # 2 \/ ~is_dir(cli.args[2])

\* No step of combine_folder was taken.
NoCombine ==
    /\ pc = "idle"
    /\ mode = "none"
    /\ report = NewReport
    /\ events = <<>>
    /\ cg = NoGroup
    /\ consumed = <<>>
    /\ \A t \in FileType : outputs[t] = None

Shows(stream, text) == \E i \in 1..Len(stream) : stream[i] = text

\* C21: run_cli returns 2, writes nothing to the output stream and one
\* message to the error stream, and performs no combine, when the argument
\* count is not 2 or the argument is not a directory; otherwise it runs the
\* combine to its end and returns 0, with nothing on the error stream and a
\* report on the output stream that states both counts of the report,
\* whatever warnings or errors the report records.  Before run_cli has
\* validated its arguments no combine step is taken.
C21_ExitCodes ==
    /\ cli.pc = "none" => NoCombine
    /\ ~CliReturned => (cli.exit_code = None /\ cli.out = <<>>)
    /\ CliReturned =>
           IF BadArgs
           THEN /\ cli.exit_code = Some(2)
                /\ cli.out = <<>>
                /\ Len(cli.err) = 1
                /\ NoCombine
           ELSE /\ cli.exit_code = Some(0)
                /\ cli.err = <<>>
                /\ pc = "done" /\ mode = "folder"
                /\ Shows(cli.out, [line |-> "files", label |-> "Bead",
                                   count |-> report.bead_files])
                /\ Shows(cli.out, [line |-> "files", label |-> "Motor",
                                   count |-> report.motor_files])

\* C21 witness: run_cli returned 0 on a folder with two Bead files whose
\* report records a header mismatch and a failed write.
C21_Witness ==
    /\ CliReturned
    /\ cli.exit_code = Some(0)
    /\ report.bead_files = 2
    /\ Len(collect_warnings(report)) = 1
    /\ Len(collect_errors(report)) = 1
    /\ Shows(cli.out, [line |-> "files", label |-> "Bead", count |-> 2])

\* run_cli has printed the report of a run.
Printed == CliReturned /\ ~BadArgs

\* The output stream shows the counts, the groups, the warnings and the
\* errors of the groups of report r.
ShowsGroups(r) ==
    /\ Shows(cli.out, [line |-> "files", label |-> "Bead", count |-> r.bead_files])
    /\ Shows(cli.out, [line |-> "files", label |-> "Motor", count |-> r.motor_files])
    /\ IsSome(r.bead) => Shows(cli.out, print_group(Unwrap(r.bead), "Bead"))
    /\ IsSome(r.motor) => Shows(cli.out, print_group(Unwrap(r.motor), "Motor"))
    /\ \A i \in 1..Len(collect_warnings(r)) :
           Shows(cli.out, [line |-> "warning",
                           file |-> collect_warnings(r)[i].file,
                           message |-> collect_warnings(r)[i].message])
    /\ \A t \in FileType :
           IsSome(SummaryOf(t)) =>
               \A i \in 1..Len(Unwrap(SummaryOf(t)).errors) :
                   Shows(cli.out, [line |-> "error",
                                   file |-> Unwrap(SummaryOf(t)).errors[i].file,
                                   message |-> Unwrap(SummaryOf(t)).errors[i].message])

\* C22: for every report run_cli prints, the output stream shows both
\* counts, the output path (or "(not created)") and the line count of each
\* group of the report, every warning, and every error of the report, the
\* folder-level error of a failed discovery included.
C22_ShowsEverything ==
    Printed =>
        /\ ShowsGroups(report)
        /\ \A i \in 1..Len(report.errors) :
               Shows(cli.out, [line |-> "error", file |-> report.errors[i].file,
                               message |-> report.errors[i].message])

\* The run ended with a fatal discovery error: the folder could not be
\* listed, and the report records it at the folder level.
FatalDiscoveryError == report.errors # <<>>

\* C23: the code run_cli returns differs from 0 exactly when its arguments
\* are bad or the run ended with a fatal discovery error; errors on input
\* files, errors on output files and warnings leave it 0, and a run whose
\* directory listing fails after the arguments were validated returns a
\* code that is not 0.
C23_ExitCodeIffFatal ==
    CliReturned =>
        (cli.exit_code # Some(0) <=> (BadArgs \/ FatalDiscoveryError))

(***************************************************************************)
(* Claims about the GUI's worker thread, checked under WorkerSpec.         *)
(***************************************************************************)
\* C20: the worker of a run sends at most one report on the result channel;
\* it sends it when combine_folder_with_progress has returned, and it is
\* the report returned; once the report is sent the thread has ended, and
\* nothing more is sent on the progress channel or on the result channel.
C20_ReportAfterProgress ==
    /\ [](/\ Len(result_tx) <= 1
          /\ result_tx # <<>> <=> pc = "exited"
          /\ result_tx # <<>> => result_tx = <<report>>)
    /\ [][/\ result_tx' # result_tx =>
                 /\ pc = "done"
                 /\ result_tx = <<>>
                 /\ result_tx' = <<report>>
                 /\ progress_tx' = progress_tx
          /\ result_tx # <<>> =>
                 /\ progress_tx' = progress_tx
                 /\ result_tx' = result_tx]_vars

\* C20 witness: the report was sent after two Discovery and two Combine
\* notifications; it holds both summaries.
C20_Witness ==
    /\ pc = "exited"
    /\ Len(result_tx) = 1
    /\ Len(progress_tx) = 4
    /\ Len(CombineEvents) = 2
    /\ IsSome(result_tx[1].bead)
    /\ IsSome(result_tx[1].motor)

(***************************************************************************)
(* Claims about the GUI and its workers, checked under GuiSpec.            *)
(***************************************************************************)
\* The output files worker w has created and not yet closed.
OpenOutputs(w) ==
    {threads[w].steps[i].arg :
        i \in {k \in 1..threads[w].done :
                  /\ threads[w].steps[k].op = "create"
                  /\ \A j \in (k + 1)..threads[w].done :
                         threads[w].steps[j] # Step("close", threads[w].steps[k].arg)}}

\* C27: at most one worker is running at any time, and no two workers have
\* the same output file open (created, written and not yet closed) at the
\* same time.
C27_OneWorkerAtATime ==
    /\ Cardinality({w \in Workers : Running(w)}) <= 1
    /\ \A w1, w2 \in Workers :
           w1 # w2 => OpenOutputs(w1) \cap OpenOutputs(w2) = {}

\* The progress notifications worker w has sent so far, in the order sent.
ProgressSent(w) ==
    LET sends == SelectSeq(SubSeq(threads[w].steps, 1, threads[w].done),
                           LAMBDA s : s.op = "send")
    IN  [i \in 1..Len(sends) |-> sends[i].arg]

\* The progress notifications of worker w among the first n messages that
\* update applied to the state.
ProgressApplied(w, n) ==
    LET mine == SelectSeq(SubSeq(applied, 1, n),
                          LAMBDA m : m.kind = "progress" /\ m.from = w)
    IN  [i \in 1..Len(mine) |-> mine[i].msg]

\* The notifications a channel holds, oldest first.
Queued(q) == [i \in 1..Len(q) |-> q[i].msg]

\* C28: when the report of a run is applied, every progress notification the
\* run sent has been applied before it.
C28_AllProgressApplied ==
    \A i \in 1..Len(applied) :
        applied[i].kind = "result" =>
            ProgressApplied(applied[i].from, i) = ProgressSent(applied[i].from)

\* C28, as the code has it: the notifications of a run that were applied
\* are, in the order sent, the first of those it sent; while the progress
\* receiver of a run exists, the others are still queued in its channel (so
\* the ones lost are those queued when the report is applied and the
\* receiver dropped); and none is applied after the report of its run.
C28_ProgressInOrder ==
    /\ \A w \in Workers :
           IsPrefix(ProgressApplied(w, Len(applied)), ProgressSent(w))
    /\ IsSome(app.progress_rx) =>
           LET w == Unwrap(app.progress_rx)
           IN  ProgressApplied(w, Len(applied)) \o Queued(progress_ch[w])
                   = ProgressSent(w)
    /\ \A i \in 1..Len(applied) :
           applied[i].kind = "result" =>
               \A j \in (i + 1)..Len(applied) :
                   applied[j].from # applied[i].from

\* C28 witness: the report of a run was applied after its first
\* notification, and without the other one it had sent.
C28_Witness ==
    \E i \in 1..Len(applied) :
        /\ applied[i].kind = "result"
        /\ Len(ProgressApplied(applied[i].from, i)) = 1
        /\ Len(ProgressSent(applied[i].from)) > 1

\* The worker spawned by the latest drop.
LatestWorker == Len(threads)

\* The report the worker w sends when it ends.
ReportOf(w) == threads[w].steps[Len(threads[w].steps)].arg

\* C29: what the GUI shows belongs to the folder dropped last: every
\* notification and every report that update applies to the state was sent
\* by the worker of the latest drop, never by a superseded one; the folder
\* shown is the one dropped last, and a report shown is the report of its
\* run.
C29_OnlyLatestRunApplied ==
    /\ [][\A i \in (Len(applied) + 1)..Len(applied') :
              /\ applied'[i].from = LatestWorker
              /\ threads' = threads]_vars
    /\ [](/\ threads # <<>> => app.folder = Some(threads[LatestWorker].folder)
          /\ IsSome(app.report) =>
                 /\ ~Running(LatestWorker)
                 /\ app.report = Some(ReportOf(LatestWorker)))

\* C29 witness: folder A was dropped, then folder B before anything of the
\* run on A was applied; the run on A went on to its end, and the report
\* shown is the one of B, with no input file.
C29_Witness ==
    /\ Len(threads) = 2
    /\ threads[1].folder = "A"
    /\ threads[2].folder = "B"
    /\ ~Running(1)
    /\ \A i \in 1..Len(applied) : applied[i].from = 2
    /\ app.report = Some(ReportOf(2))
    /\ ReportOf(1) # ReportOf(2)

\* The state of the GUI once a run is over.
Settled ==
    /\ ~app.processing
    /\ ~app.scanning
    /\ IsSome(app.report)
    /\ app.progress_rx = None
    /\ app.result_rx = None

\* C30: every worker spawned goes on to its end, where it sends its report,
\* and whenever the GUI is processing it later reaches the state with
\* processing and scanning unset, a report present and both receivers
\* dropped: the GUI never stays in the processing state forever.
C30_RunCompletes ==
    /\ \A w \in 1..MaxDrops :
           (w \in Workers) ~> (w \in Workers /\ ~Running(w))
    /\ app.processing ~> Settled

\* C30 witness: after a drop of folder A the worker has ended and the GUI
\* shows its report, which counts one Bead file.
C30_Witness ==
    /\ Settled
    /\ threads # <<>>
    /\ \A w \in Workers : ~Running(w)
    /\ update_pc = "idle"
    /\ Unwrap(app.report).bead_files = 1

=============================================================================
